---- MODULE Spec2Model ----
(***************************************************************************)
(* A model of prototype-js: the reactive core (createSignal/createEffect), *)
(* the keyed list reconciler (listComponent), the conditional in both of   *)
(* its strategies (conditionalComponent), the node builder                 *)
(* (createComponent: tag-path, class list and attributes), the bound input *)
(* (inputComponent) and the todo store (todo-db).  Every top-level action  *)
(* is one synchronous call                                                 *)
(* into the library, computed to completion by the recursive operators     *)
(* below, exactly as the single-threaded code runs it.                     *)
(***************************************************************************)
EXTENDS Integers, Sequences, FiniteSets, TLC

\* ---------------------------------------------------------------- bounds
NumCells == 2
MaxVal == 1
MaxEffects == 2
MaxBody == 2
MaxDepth == 5

\* `null` / `undefined`
Null == 0

Cells == 1..NumCells
Vals == 0..MaxVal
EffIds == 1..MaxEffects

RECURSIVE ExecBody(_, _, _, _, _)
RECURSIVE CallEffect(_, _, _, _)
RECURSIVE Notify(_, _, _, _)
RECURSIVE createEffect(_, _, _)

\* ------------------------------------------------- effect functions (fn)
\* An effect function is a short straight-line closure over the cells:
\*   read c        c()
\*   readIf c d    if (c()) d()            (a dependency read only on some runs)
\*   write c d     setC(d)                 (literal write of d = MaxVal)
\*   effect c      createEffect(() => { c() })   (c = Null: an empty closure)
\*   throw         throw new Error()
EffectOps ==
  [op : {"read"}, c : Cells, d : {Null}]
    \cup {o \in [op : {"readIf"}, c : Cells, d : Cells] : o.c # o.d}
    \cup [op : {"write"}, c : Cells, d : {MaxVal}]
    \cup [op : {"effect"}, c : {Null} \cup Cells, d : {Null}]
    \cup [op : {"throw"}, c : {Null}, d : {Null}]

EffectBodies == UNION {[1..n -> EffectOps] : n \in 0..MaxBody}

NestedBody(o) ==
  IF o.c = Null THEN << >> ELSE <<[op |-> "read", c |-> o.c, d |-> Null]>>

\* ------------------------------------------------------------ createSignal
\* `subscribers` is a JS Set: identity-unique, iterated in insertion order.
SetAdd(s, e) == IF \E i \in 1..Len(s) : s[i] = e THEN s ELSE Append(s, e)

\* get(): registers the active effect, returns the value.  `self` is the effect
\* whose own statement performs the read and `init` tells whether that effect is
\* in its initial run under createEffect (bookkeeping only).
\* `stale` notes a read that returned another value than the one handed to the
\* latest set() of that cell (bookkeeping only).
get(st, c, self, init) ==
  [st EXCEPT !.subs[c] = IF st.active # Null THEN SetAdd(@, st.active) ELSE @,
             !.lastRead[self] = @ \cup {c},
             !.initRead[self] = IF init THEN @ \cup {c} ELSE @,
             !.stale = @ \/ st.val[c] # st.want[c]]

\* subscribers.forEach(fn => fn()): a live iteration, entries added while it runs
\* are visited too; an exception ends it.
Notify(st, c, i, d) ==
  IF st.err # "none" \/ i > Len(st.subs[c]) THEN st
  ELSE Notify(CallEffect(st, st.subs[c][i], d, FALSE), c, i + 1, d)

\* set(newValue) with the two statements in the other order: run every
\* subscriber, then assign.
setNotifyThenAssign(st, c, v, d) ==
  LET s1 == Notify([st EXCEPT !.nw = @ + 1, !.want[c] = v, !.written = @ \cup {c}],
                   c, 1, d)
  IN  IF s1.err # "none" THEN s1 ELSE [s1 EXCEPT !.val[c] = v]

\* set(newValue): assign, then run every subscriber.  `want` and `written`
\* note the value handed over and the cells written during the call.
setAssignThenNotify(st, c, v, d) ==
  Notify([st EXCEPT !.val[c] = v, !.nw = @ + 1, !.want[c] = v,
                    !.written = @ \cup {c}], c, 1, d)

\* set(newValue) with a guard that skips the notification when the value is
\* unchanged.
setIfChanged(st, c, v, d) ==
  IF st.val[c] = v THEN [st EXCEPT !.nw = @ + 1, !.want[c] = v, !.written = @ \cup {c}]
  ELSE setAssignThenNotify(st, c, v, d)

set(st, c, v, d) == setAssignThenNotify(st, c, v, d)

\* set(prev => next): the updater form, applied to the current value.
Updater(prev) == (prev + 1) % (MaxVal + 1)

setWith(st, c, d) == set(st, c, Updater(st.val[c]), d)

\* ------------------------------------------------------------ createEffect
\* One invocation fn() of effect e at call depth d.  The engine's stack is
\* finite: at MaxDepth the call raises (RangeError) instead of running.
CallEffect(st, e, d, init) ==
  IF st.err # "none" THEN st
  ELSE IF d >= MaxDepth THEN [st EXCEPT !.err = "overflow"]
  ELSE ExecBody([st EXCEPT !.ran[e] = @ + 1, !.lastRead[e] = {}], e, 1, d + 1, init)

ExecOp(st, e, o, d, init) ==
  CASE o.op = "read" -> get(st, o.c, e, init)
    [] o.op = "readIf" ->
         LET s1 == get(st, o.c, e, init)
         IN  IF s1.val[o.c] # 0 THEN get(s1, o.d, e, init) ELSE s1
    [] o.op = "write" -> set(st, o.c, o.d, d)
    [] o.op = "effect" -> createEffect(st, NestedBody(o), d)
    [] OTHER -> [st EXCEPT !.err = "throw"]

ExecBody(st, e, pc, d, init) ==
  IF st.err # "none" \/ pc > Len(st.body[e]) THEN st
  ELSE ExecBody(ExecOp(st, e, st.body[e][pc], d, init), e, pc + 1, d, init)

\* createEffect(fn) without the trailing `activeEffect = null`.
createEffectNoClear(st, b, d) ==
  IF st.n >= MaxEffects THEN [st EXCEPT !.err = "cap"]
  ELSE LET e == st.n + 1
       IN  CallEffect([st EXCEPT !.n = e, !.body[e] = b, !.active = e], e, d, TRUE)

\* createEffect(fn): activeEffect = fn; fn(); activeEffect = null.  Every call
\* site passes a fresh closure, so fn gets a fresh identity.  An exception in
\* fn() leaves before the slot is cleared.
createEffect(st, b, d) ==
  IF st.n >= MaxEffects THEN [st EXCEPT !.err = "cap"]
  ELSE LET e == st.n + 1
           s1 == CallEffect([st EXCEPT !.n = e, !.body[e] = b, !.active = e], e, d, TRUE)
       IN  IF s1.err # "none" THEN s1 ELSE [s1 EXCEPT !.active = Null]

\* ============================================================ listComponent
\* bounds of the list model
NumObjs == 3
MaxLen == 3
\* a second, wider universe of item objects, for single passes over longer lists
WideObjs == 5
WideLen == 4
WideWrites == 1
MaxRender == 2
\* how many writes of the items cell are explored before the nodes are attached
MaxEarly == 1
\* how many writes of the items cell are explored in all
MaxWrites == 3
\* how many nodes rendered for one item identity can be referenced at a time
NumGen == 3

Objs == 1..(IF NumObjs > WideObjs THEN NumObjs ELSE WideObjs)
\* node objects: NumGen per item identity, and the list's placeholder comment
Nodes == 1..(Cardinality(Objs) * NumGen + 1)
ItemNodes(o) == ((o - 1) * NumGen + 1)..(o * NumGen)
CommentNode == Cardinality(Objs) * NumGen + 1

\* the one element the caller appends the returned nodes to
Parent == 1

Range(s) == {s[i] : i \in 1..Len(s)}

\* collections of distinct object identities out of objs, at most len long
CollectionsOf(objs, len) ==
  {s \in UNION {[1..n -> objs] : n \in 0..len} :
     \A i, j \in 1..Len(s) : i # j => s[i] # s[j]}

Collections == CollectionsOf(1..NumObjs, MaxLen)
WideCollections == CollectionsOf(1..WideObjs, WideLen)

\* the collection listComponent is first given: its objects are numbered in
\* order (identities are only ever compared, so any other naming behaves alike)
InitialCollections(len) == {[j \in 1..n |-> j] : n \in 0..len}

\* renderItem(getter, index) is the caller's function.  It builds one node and
\*   "read"    calls getter() while rendering (e.g. children: item().label)
\*   "effect"  binds the node through createEffect(() => { ... getter() ... })
\*             (textComponent / a dynamic class, as TodoItem does)
RenderProgs == UNION {[1..n -> {"read", "effect"}] : n \in 0..MaxRender}

\* effect functions are identified by numbers (Null is none): the function
\* listComponent passes to createEffect,
ListEff == 1
\* and the k-th effect function created while rendering node n
ItemEff(n, k) == n * (MaxRender + 1) + k
NodeOfEff(eff) == eff \div (MaxRender + 1)

\* JSON.stringify(item): the structural serialization of the item's fields
Stringify(v) == <<"{done:", v, "}">>

\* --- DOM: the child list of the parent element
IndexOf(s, x) == IF \E i \in 1..Len(s) : s[i] = x
                 THEN CHOOSE i \in 1..Len(s) : s[i] = x ELSE 0

Without(s, x) == SelectSeq(s, LAMBDA y : y # x)

\* parent.appendChild(n): n moves to the end
appendChild(kids, n) == Append(Without(kids, n), n)

\* parent.insertBefore(n, ref), ref a child of parent: n moves before ref
insertBefore(kids, n, ref) ==
  LET k == Without(kids, n)
      j == IndexOf(k, ref)
  IN  SubSeq(k, 1, j - 1) \o <<n>> \o SubSeq(k, j, Len(k))

\* --- itemMap: a JS Map, iterated in insertion order
Find(map, o) == IndexOf([j \in 1..Len(map) |-> map[j].key], o)

RECURSIVE ListPass(_, _)
RECURSIVE Upsert(_, _, _, _)
RECURSIVE NotifyItem(_, _, _, _)
RECURSIVE RemoveGone(_, _, _)
RECURSIVE RenderOps(_, _, _, _, _)

\* the per-item getter of createSignal(item)
itemGet(ls, o) ==
  IF ls.active # Null THEN [ls EXCEPT !.cellSubs[o] = SetAdd(@, ls.active)] ELSE ls

\* one invocation of an effect function created by renderItem: it reads the
\* per-item getter and writes what it read into its node
CallItemEffect(ls, o, eff, d) ==
  IF ls.err # "none" THEN ls
  ELSE IF d >= MaxDepth THEN [ls EXCEPT !.err = "overflow"]
  ELSE LET s1 == itemGet(ls, o)
       IN  [s1 EXCEPT !.text[NodeOfEff(eff)] = s1.content[s1.cellVal[o]]]

\* one invocation of the reconciliation effect function
CallListEffect(ls, d) ==
  IF ls.err # "none" THEN ls
  ELSE IF d >= MaxDepth THEN [ls EXCEPT !.err = "overflow"]
  ELSE ListPass(ls, d + 1)

\* subscribers.forEach(fn => fn()) of a per-item cell
NotifyItem(ls, o, i, d) ==
  IF ls.err # "none" \/ i > Len(ls.cellSubs[o]) THEN ls
  ELSE LET eff == ls.cellSubs[o][i]
       IN  NotifyItem(IF eff = ListEff THEN CallListEffect(ls, d)
                      ELSE CallItemEffect(ls, o, eff, d),
                      o, i + 1, d)

\* obj.setter(() => item): the updater form of set
itemSet(ls, o, item, d) ==
  NotifyItem([ls EXCEPT !.cellVal[o] = item, !.setCalls[o] = @ + 1], o, 1, d)

\* renderItem(getter, i): the statements of the caller's render function
RenderOps(ls, o, n, pc, d) ==
  IF ls.err # "none" \/ pc > Len(ls.render) THEN ls
  ELSE IF ls.render[pc] = "read"
       THEN LET s1 == itemGet(ls, o)
            IN  RenderOps([s1 EXCEPT !.text[n] = s1.content[s1.cellVal[o]]],
                          o, n, pc + 1, d)
       ELSE LET eff == ItemEff(n, pc)
                s1 == CallItemEffect([ls EXCEPT !.active = eff], o, eff, d)
            IN  RenderOps(IF s1.err # "none" THEN s1 ELSE [s1 EXCEPT !.active = Null],
                          o, n, pc + 1, d)

\* Nodes are objects: a new node is one that nothing refers to, now or when the
\* running top-level call began.
NodesInUse(ls) ==
  {ls.map[j].element : j \in 1..Len(ls.map)} \cup Range(ls.kids)
    \cup Range(ls.returned) \cup {ls.referenceElm}

FreeNodes(ls, o) == ItemNodes(o) \ (NodesInUse(ls) \cup ls.used0)

NewNode(ls, o) == CHOOSE n \in FreeNodes(ls, o) : \A m \in FreeNodes(ls, o) : n <= m

\* the branch `if (!obj)`: createSignal(item), renderItem, itemMap.set
RenderNew(ls, item, i, id, d) ==
  IF FreeNodes(ls, item) = {} THEN [ls EXCEPT !.err = "cap"]
  ELSE LET n == NewNode(ls, item)
           s1 == RenderOps([ls EXCEPT !.used0 = @ \cup {n},
                                      !.text[n] = Null,
                                      !.cellVal[item] = item,
                                      !.cellSubs[item] = << >>,
                                      !.renders[item] = @ + 1],
                           item, n, 1, d)
       IN  IF s1.err # "none" THEN s1
           ELSE [s1 EXCEPT !.map = Append(@, [key |-> item, element |-> n,
                                              id |-> id, position |-> i])]

\* the branch `else if (id !== obj.id)` written as the earlier revision of the
\* library has it: render the item again and replace the node
UpdateByRebuild(ls, item, i, id, d) ==
  IF FreeNodes(ls, item) = {} THEN [ls EXCEPT !.err = "cap"]
  ELSE LET n == NewNode(ls, item)
           k == Find(ls.map, item)
           s1 == RenderOps([ls EXCEPT !.used0 = @ \cup {n}, !.text[n] = Null,
                                      !.renders[item] = @ + 1],
                           item, n, 1, d)
       IN  IF s1.err # "none" THEN s1
           ELSE [s1 EXCEPT !.map[k].element = n, !.map[k].id = id,
                           !.kids = [j \in 1..Len(@) |->
                                       IF @[j] = ls.map[k].element THEN n ELSE @[j]]]

\* the branch `else if (id !== obj.id)`: push the item into its own cell
UpdateExisting(ls, item, i, id, d) ==
  LET s1 == itemSet(ls, item, item, d)
      k == Find(s1.map, item)
  IN  IF s1.err # "none" THEN s1
      ELSE [s1 EXCEPT !.map[k].id = id, !.map[k].position = i]

\* the block `if (obj && isPositionChanged)`
Reposition(ls, item, i) ==
  LET k == Find(ls.map, item)
      elm == ls.map[k].element
      targetPosition == IF ls.parentNode # Null /\ i + 1 <= Len(ls.kids)
                        THEN ls.kids[i + 1] ELSE Null
      kids2 == IF targetPosition = elm \/ ls.parentNode = Null THEN ls.kids
               ELSE IF targetPosition # Null THEN insertBefore(ls.kids, elm, targetPosition)
               ELSE appendChild(ls.kids, elm)
  IN  [ls EXCEPT !.kids = kids2, !.map[k].position = i]

\* currentItems.forEach((item, i) => ...), from index i (0-based) on
Upsert(ls, cur, i, d) ==
  IF ls.err # "none" \/ i >= Len(cur) THEN ls
  ELSE LET item == cur[i + 1]
           k == Find(ls.map, item)
           id == Stringify(ls.content[item])
           isPositionChanged == k = 0 \/ ls.map[k].position # i
           s1 == IF k = 0 THEN RenderNew(ls, item, i, id, d)
                 ELSE IF id # ls.map[k].id THEN UpdateExisting(ls, item, i, id, d)
                 ELSE ls
           s2 == IF s1.err = "none" /\ isPositionChanged
                 THEN Reposition(s1, item, i) ELSE s1
       IN  Upsert(s2, cur, i + 1, d)

\* itemMap.forEach: unmount and drop the records whose item left the collection.
\* removeChild of a node that is not a child raises (NotFoundError).
RemoveGone(ls, cur, j) ==
  IF ls.err # "none" \/ j > Len(ls.map) THEN ls
  ELSE IF ls.map[j].key \in Range(cur) THEN RemoveGone(ls, cur, j + 1)
  ELSE IF ls.parentNode # Null /\ ls.map[j].element \notin Range(ls.kids)
       THEN [ls EXCEPT !.err = "dom"]
  ELSE RemoveGone([ls EXCEPT !.kids = IF ls.parentNode # Null
                                      THEN Without(@, ls.map[j].element) ELSE @,
                             !.map = SubSeq(@, 1, j - 1) \o SubSeq(@, j + 1, Len(@))],
                  cur, j)

\* the parent discovery with the placeholder left where it is
FindParentKeepPlaceholder(ls) ==
  IF ls.parentNode # Null THEN ls
  ELSE IF ls.referenceElm # Null /\ ls.referenceElm \in Range(ls.kids)
       THEN [ls EXCEPT !.parentNode = Parent, !.referenceElm = Null]
  ELSE IF Len(ls.map) > 0 /\ ls.map[1].element \in Range(ls.kids)
       THEN [ls EXCEPT !.parentNode = Parent]
  ELSE ls

\* `if (!parentNode) { ... }`: find the parent from the placeholder, else from
\* the first record's node
FindParent(ls) ==
  IF ls.parentNode # Null THEN ls
  ELSE IF ls.referenceElm # Null /\ ls.referenceElm \in Range(ls.kids)
       THEN [ls EXCEPT !.parentNode = Parent,
                       !.kids = Without(@, ls.referenceElm),
                       !.referenceElm = Null]
  ELSE IF Len(ls.map) > 0 /\ ls.map[1].element \in Range(ls.kids)
       THEN [ls EXCEPT !.parentNode = Parent]
  ELSE ls

\* the effect function of listComponent: one reconciliation pass
ListPass(ls, d) ==
  LET s0 == IF ls.active # Null
            THEN [ls EXCEPT !.itemsSubs = SetAdd(@, ls.active)] ELSE ls
      currentItems == s0.items
  IN  Upsert(RemoveGone(FindParent(s0), currentItems, 1), currentItems, 0, d)

\* setItems(next): the writer of the items cell
itemsSet(ls, next) ==
  LET RECURSIVE Each(_, _)
      Each(s, i) ==
        IF s.err # "none" \/ i > Len(s.itemsSubs) THEN s
        ELSE Each(CallListEffect(s, 0), i + 1)
  IN  Each([ls EXCEPT !.items = next], 1)

\* listComponent(items, renderItem): createEffect(pass), then the returned nodes
listComponent(items0, content0, render) ==
  LET s0 == [items |-> items0, content |-> content0, render |-> render,
             map |-> << >>, parentNode |-> Null, referenceElm |-> Null,
             kids |-> << >>, used0 |-> {},
             cellVal |-> [o \in Objs |-> Null], cellSubs |-> [o \in Objs |-> << >>],
             text |-> [n \in Nodes |-> Null], itemsSubs |-> << >>,
             active |-> ListEff, renders |-> [o \in Objs |-> 0],
             setCalls |-> [o \in Objs |-> 0], err |-> "none",
             returned |-> << >>]
      s1 == ListPass(s0, 1)
      s2 == IF s1.err # "none" THEN s1 ELSE [s1 EXCEPT !.active = Null]
      elements == [j \in 1..Len(s2.map) |-> s2.map[j].element]
  IN  IF Len(elements) = 0
      THEN [s2 EXCEPT !.referenceElm = CommentNode, !.returned = <<CommentNode>>]
      ELSE [s2 EXCEPT !.returned = elements]

\* What no reference reaches is garbage: a node outside the map, the tree and
\* the caller's hands; the cell of an untracked item; an item object that is in
\* neither the collection nor the map (the identity stands for a new object the
\* next time it enters the collection).
Collect(ls) ==
  LET live == NodesInUse(ls)
      tracked == {ls.map[j].key : j \in 1..Len(ls.map)}
  IN  [ls EXCEPT !.text = [n \in Nodes |-> IF n \in live THEN @[n] ELSE Null],
                 !.cellVal = [o \in Objs |-> IF o \in tracked THEN @[o] ELSE Null],
                 !.cellSubs = [o \in Objs |-> IF o \in tracked THEN @[o] ELSE << >>],
                 !.content = [o \in Objs |->
                                IF o \in tracked \cup Range(ls.items) THEN @[o] ELSE 0]]

\* ======================================== conditionalComponent, strategy "remove"
\* how many other children the parent element has
NumSiblings == 2

\* node objects of this part: the parent's other children, the components that
\* createComponent(options) builds, and the "hidden" comments
SiblingNodes == 1..NumSiblings
ElmNodes == (NumSiblings + 1)..(NumSiblings + NumGen)
CommentNodes == (NumSiblings + NumGen + 1)..(NumSiblings + 2 * NumGen)

\* the function conditionalComponent passes to createEffect
CondEff == 1

\* condition(): the getter of the caller's cell
condition(cs) ==
  [cs EXCEPT !.subs = IF cs.active # Null THEN SetAdd(@, cs.active) ELSE @]

\* a new node out of pool: one that nothing refers to, now or when the running
\* top-level call began
CondInUse(cs) == {cs.elm, cs.placeholder, cs.ret} \cup Range(cs.kids)

FreshNodes(cs, pool) == pool \ (CondInUse(cs) \cup cs.used0)

FreshNode(cs, pool) ==
  CHOOSE n \in FreshNodes(cs, pool) : \A m \in FreshNodes(cs, pool) : n <= m

\* not the library's: take old out and put new at the end
replaceByAppend(kids, new, old) == Append(Without(kids, old), new)

\* parentNode.replaceChild(new, old), old a child of parentNode
replaceChild(kids, new, old) ==
  [j \in 1..Len(kids) |-> IF kids[j] = old THEN new ELSE kids[j]]

\* `if (!parentNode) { ... }`: the parent of elm, else of placeholder
FindCondParent(cs) ==
  IF cs.parentNode # Null THEN cs
  ELSE IF cs.elm # Null /\ cs.elm \in Range(cs.kids)
       THEN [cs EXCEPT !.parentNode = Parent]
  ELSE IF cs.placeholder # Null /\ cs.placeholder \in Range(cs.kids)
       THEN [cs EXCEPT !.parentNode = Parent]
  ELSE cs

\* no parent yet: build what the condition asks for, and return
BuildUnattached(cs) ==
  LET pool == IF cs.cond THEN ElmNodes ELSE CommentNodes
  IN  IF FreshNodes(cs, pool) = {} THEN [cs EXCEPT !.err = "cap"]
      ELSE LET n == FreshNode(cs, pool)
           IN  IF cs.cond THEN [cs EXCEPT !.elm = n, !.used0 = @ \cup {n}]
               ELSE [cs EXCEPT !.placeholder = n, !.used0 = @ \cup {n}]

\* with a parent: substitute the component for the placeholder, or the reverse
Substitute(cs) ==
  IF cs.cond
  THEN IF cs.placeholder # Null /\ cs.placeholder \in Range(cs.kids)
       THEN IF FreshNodes(cs, ElmNodes) = {} THEN [cs EXCEPT !.err = "cap"]
            ELSE LET n == FreshNode(cs, ElmNodes)
                 IN  [cs EXCEPT !.elm = n, !.used0 = @ \cup {n},
                                !.kids = replaceChild(@, n, cs.placeholder),
                                !.placeholder = Null, !.swaps = @ + 1]
       ELSE cs
  ELSE IF cs.elm # Null /\ cs.elm \in Range(cs.kids)
       THEN IF FreshNodes(cs, CommentNodes) = {} THEN [cs EXCEPT !.err = "cap"]
            ELSE LET n == FreshNode(cs, CommentNodes)
                 IN  [cs EXCEPT !.placeholder = n, !.used0 = @ \cup {n},
                                !.kids = replaceChild(@, n, cs.elm),
                                !.elm = Null, !.swaps = @ + 1]
       ELSE cs

\* the effect function of the remove strategy
CondRun(cs) ==
  LET s1 == FindCondParent(cs)
  IN  IF s1.parentNode = Null THEN BuildUnattached(condition(s1))
      ELSE IF s1.parentNode = Null THEN [s1 EXCEPT !.err = "throw"]
      ELSE Substitute(condition(s1))

\* setCondition(v): assign, then run every subscriber (only CondEff can be one)
conditionSet(cs, v) ==
  LET RECURSIVE Each(_, _)
      Each(s, i) ==
        IF s.err # "none" \/ i > Len(s.subs) THEN s
        ELSE Each(CondRun(s), i + 1)
  IN  Each([cs EXCEPT !.cond = v], 1)

\* conditionalComponent(options, condition, "remove"): createEffect(fn), then
\* `return elm || placeholder`
conditionalComponent(c0) ==
  LET s0 == [cond |-> c0, subs |-> << >>, elm |-> Null, placeholder |-> Null,
             parentNode |-> Null, kids |-> << >>, ret |-> Null, used0 |-> {},
             active |-> CondEff, swaps |-> 0, err |-> "none"]
      s1 == CondRun(s0)
      s2 == IF s1.err # "none" THEN s1 ELSE [s1 EXCEPT !.active = Null]
  IN  [s2 EXCEPT !.ret = IF s2.elm # Null THEN s2.elm ELSE s2.placeholder]

\* ============================================= createComponent: the class list
\* class names, and how many entries the `classes` option has
NumClasses == 3
MaxEntries == 2

Classes == 1..NumClasses
Entries == 1..MaxEntries

\* an entry of `classes`: a literal class name, or a producer () => cell() over
\* a cell of its own that holds a class name or null
ClassEntries == [dyn : {FALSE}, lit : Classes] \cup [dyn : {TRUE}, lit : {Null}]
ClassConfigs == UNION {[1..n -> ClassEntries] : n \in 1..MaxEntries}

\* the effect function of a dynamic entry k, without the removal of the class
\* it added before
classEffectNoRemove(cl, k) ==
  LET s1 == [cl EXCEPT !.subs[k] = IF cl.active # Null THEN SetAdd(@, cl.active) ELSE @]
      strClass == s1.cell[k]
  IN  IF strClass # Null
      THEN [s1 EXCEPT !.classList = @ \cup {strClass}, !.ref[k] = strClass]
      ELSE s1

\* the effect function of a dynamic entry k: `const strClass = str(); ...`
classEffect(cl, k) ==
  LET s1 == [cl EXCEPT !.subs[k] = IF cl.active # Null THEN SetAdd(@, cl.active) ELSE @]
      strClass == s1.cell[k]
  IN  IF strClass # Null
      THEN LET added == s1.classList \cup {strClass}
           IN  [s1 EXCEPT !.classList =
                            IF s1.ref[k] # Null /\ strClass # s1.ref[k]
                            THEN added \ {s1.ref[k]} ELSE added,
                          !.ref[k] = strClass]
      ELSE IF s1.ref[k] # Null
           THEN [s1 EXCEPT !.classList = @ \ {s1.ref[k]}]
           ELSE s1

\* addClass(str) for the k-th entry
addClass(cl, k) ==
  IF cl.entries[k].dyn
  THEN [classEffect([cl EXCEPT !.active = k], k) EXCEPT !.active = Null]
  ELSE [cl EXCEPT !.classList = @ \cup {cl.entries[k].lit}]

\* classes.forEach(addClass), from entry k on
RECURSIVE applyClasses(_, _)
applyClasses(cl, k) ==
  IF k > Len(cl.entries) THEN cl ELSE applyClasses(addClass(cl, k), k + 1)

\* createComponent({ tagName, classes }): the innermost element gets the
\* tag-path's classes as className, then the entries
buildClasses(tagClasses0, entries, cells) ==
  applyClasses([classList |-> tagClasses0, entries |-> entries, cell |-> cells,
                ref |-> [k \in Entries |-> Null],
                subs |-> [k \in Entries |-> << >>], active |-> Null], 1)

\* the writer of the cell of entry k: assign, then run the subscribers (the
\* effect function of entry j has the number j)
classCellSet(cl, k, v) ==
  LET RECURSIVE Each(_, _)
      Each(s, i) ==
        IF i > Len(s.subs[k]) THEN s ELSE Each(classEffect(s, s.subs[k][i]), i + 1)
  IN  Each([cl EXCEPT !.cell[k] = v], 1)

\* ================================================ inputComponent: bound input
\* the longest string written to the cell or typed into the node
MaxText == 3

\* strings are sequences over a letter, a line feed and a carriage return
Chars == {"a", "LF", "CR"}
Strings == UNION {[1..n -> Chars] : n \in 0..MaxText}
InputTags == {"input", "textarea"}
InputEff == 1

\* what `input.value` holds after `input.value = s`: a text <input> strips the
\* line breaks of s, a <textarea> gives CRLF and CR back as LF
RECURSIVE stripNewlines(_)
stripNewlines(s) ==
  IF s = << >> THEN << >>
  ELSE IF Head(s) \in {"LF", "CR"} THEN stripNewlines(Tail(s))
  ELSE <<Head(s)>> \o stripNewlines(Tail(s))

RECURSIVE normalizeNewlines(_)
normalizeNewlines(s) ==
  IF s = << >> THEN << >>
  ELSE IF Head(s) = "CR"
       THEN IF Len(s) > 1 /\ s[2] = "LF"
            THEN <<"LF">> \o normalizeNewlines(Tail(Tail(s)))
            ELSE <<"LF">> \o normalizeNewlines(Tail(s))
       ELSE <<Head(s)>> \o normalizeNewlines(Tail(s))

\* `input.value = s`
valueSet(tag, s) ==
  IF tag = "input" THEN stripNewlines(s) ELSE normalizeNewlines(s)

\* the values the user can leave in the node by editing it
Editable(tag) == {s \in Strings : valueSet(tag, s) = s}

\* get() of the bound cell
inputGet(is) ==
  [is EXCEPT !.subs = IF is.active # Null THEN SetAdd(@, is.active) ELSE @]

\* the effect function of inputComponent: input.value = get()
inputEffect(is) ==
  LET s1 == inputGet(is)
  IN  [s1 EXCEPT !.value = valueSet(s1.tag, s1.cell), !.runs = @ + 1]

\* set(v) of the bound cell: assign, then run the subscribers
inputCellSet(is, v) ==
  LET RECURSIVE Each(_, _)
      Each(s, i) == IF i > Len(s.subs) THEN s ELSE Each(inputEffect(s), i + 1)
  IN  Each([is EXCEPT !.cell = v, !.runs = 0], 1)

\* the listener of the edit event: set(e.target.value)
inputListener(is) == inputCellSet(is, is.value)

\* inputComponent({ tagName, event, get, set }) over a cell that holds s0
inputComponent(tag, s0) ==
  LET s1 == inputGet([tag |-> tag, cell |-> s0, value |-> << >>,
                      subs |-> << >>, active |-> Null, runs |-> 0])
      s2 == [s1 EXCEPT !.value = valueSet(tag, s1.cell)]
  IN  [inputEffect([s2 EXCEPT !.active = InputEff]) EXCEPT !.active = Null, !.runs = 0]

\* ============================================== createComponent: the tag-path
\* the most segments a tag-path has
MaxSegments == 3

\* a string is a sequence of characters; \w is the set WordChars
WordChars == {"a", "b", "c", "d", "i", "v"}
IdChars == WordChars \cup {"-"}
ClassChars == IdChars \cup {"."}
Div == <<"d", "i", "v">>

\* the segments a tag-path is written from: tag, id and classes, each optional
TagNames == {<< >>, <<"a", "b">>}
IdNames == {<< >>, <<"a", "-">>}
ClassLists == {<< >>, <<(<<"a">>)>>, <<(<<"a">>), (<<"b", "-">>)>>}
Segments == [tag : TagNames, id : IdNames, classes : ClassLists]
Paths == UNION {[1..n -> Segments] : n \in 1..MaxSegments}
ConfigFields == {"children", "classes", "events", "attributes"}

\* the tag-path string of a chain of segments: tag#id.class.class>...
RECURSIVE DotClasses(_)
DotClasses(cs) == IF cs = << >> THEN << >> ELSE <<".">> \o Head(cs) \o DotClasses(Tail(cs))

SegmentString(g) ==
  g.tag \o (IF g.id = << >> THEN << >> ELSE <<"#">> \o g.id) \o DotClasses(g.classes)

RECURSIVE PathString(_)
PathString(p) ==
  IF Len(p) = 1 THEN SegmentString(p[1])
  ELSE SegmentString(Head(p)) \o <<">">> \o PathString(Tail(p))

\* String.prototype.split(ch)
RECURSIVE split(_, _)
split(str, ch) ==
  IF \A i \in 1..Len(str) : str[i] # ch THEN <<str>>
  ELSE LET i == CHOOSE j \in 1..Len(str) :
                  str[j] = ch /\ \A k \in 1..(j - 1) : str[k] # ch
       IN  <<SubSeq(str, 1, i - 1)>> \o split(SubSeq(str, i + 1, Len(str)), ch)

\* Array.prototype.join(ch)
RECURSIVE join(_, _)
join(parts, ch) ==
  IF parts = << >> THEN << >>
  ELSE IF Len(parts) = 1 THEN parts[1]
  ELSE parts[1] \o <<ch>> \o join(Tail(parts), ch)

\* the longest prefix of str made of the characters in cs (a greedy cs+)
RECURSIVE Prefix(_, _)
Prefix(str, cs) ==
  IF str # << >> /\ Head(str) \in cs THEN <<Head(str)>> \o Prefix(Tail(str), cs) ELSE << >>

Drop(str, n) == SubSeq(str, n + 1, Len(str))

\* part.match(/(\w+)?(?:#([\w-]+))?(?:\.([\w-.]+))?/) with the defaults of the
\* destructuring: the match starts at the first character
match(part) ==
  LET tag == Prefix(part, WordChars)
      r1 == Drop(part, Len(tag))
      id == IF r1 # << >> /\ Head(r1) = "#" THEN Prefix(Tail(r1), IdChars) ELSE << >>
      r2 == IF id = << >> THEN r1 ELSE Drop(r1, Len(id) + 1)
      classes == IF r2 # << >> /\ Head(r2) = "." THEN Prefix(Tail(r2), ClassChars) ELSE << >>
  IN  [tag |-> IF tag = << >> THEN Div ELSE tag, id |-> id, classes |-> classes]

\* document.createElement(tag) with the id and className of one part
createElement(part) ==
  LET m == match(part)
  IN  [tag |-> m.tag, id |-> m.id,
       className |-> IF m.classes = << >> THEN << >> ELSE join(split(m.classes, "."), " "),
       kids |-> << >>, events |-> {}, attrs |-> {}]

\* the chain with every element appended to the first one
RECURSIVE chainUnderRoot(_, _)
chainUnderRoot(els, parts) ==
  IF parts = << >> THEN els
  ELSE LET n == Len(els) + 1
           linked == IF n = 1 THEN els ELSE [els EXCEPT ![1].kids = Append(@, n)]
       IN  chainUnderRoot(Append(linked, createElement(Head(parts))), Tail(parts))

\* the loop of parseEmmet: every element is appended to the one before it
RECURSIVE chain(_, _)
chain(els, parts) ==
  IF parts = << >> THEN els
  ELSE LET n == Len(els) + 1
           linked == IF n = 1 THEN els ELSE [els EXCEPT ![n - 1].kids = Append(@, n)]
       IN  chain(Append(linked, createElement(Head(parts))), Tail(parts))

\* parseEmmet(input): the elements, the root and the innermost one
parseEmmet(input) ==
  LET els == chain(<< >>, split(input, ">"))
  IN  [els |-> els, root |-> 1, element |-> Len(els)]

\* element.classList
ClassListOf(e) == {t \in Range(split(e.className, " ")) : t # << >>}

\* element.classList.add(c)
classListAdd(e, c) ==
  IF c \in ClassListOf(e) THEN e
  ELSE [e EXCEPT !.className = IF @ = << >> THEN c ELSE @ \o <<" ">> \o c]

\* createComponent({ tagName, classes, events, attributes, children }) with a
\* literal class "c", one listener, one attribute and one child for the
\* fields that are given; 0 in kids is the child of the configuration
createComponent(tagName, fields) ==
  LET p == parseEmmet(tagName)
      e0 == p.els[p.element]
      e1 == IF "classes" \in fields THEN classListAdd(e0, <<"c">>) ELSE e0
      e2 == IF "events" \in fields THEN [e1 EXCEPT !.events = @ \cup {"click"}] ELSE e1
      e3 == IF "attributes" \in fields THEN [e2 EXCEPT !.attrs = @ \cup {"title"}] ELSE e2
      e4 == IF "children" \in fields THEN [e3 EXCEPT !.kids = Append(@, 0)] ELSE e3
  IN  [els |-> [p.els EXCEPT ![p.element] = e4], root |-> p.root]

\* ======================================================== todo-db: the store
\* the most items the store holds, and how many ids randomUUID draws from
MaxTodos == 2
NumIds == 2

PersistEff == 1
UUIDs == {ToString(n) : n \in 1..NumIds}
Labels == {"a", "b"}
Bools == {"true", "false"}

\* an object is the sequence of its members <<key, value>> in insertion order
\* the argument of addTodo and addAt: { done, label } or { label, done }
NewTodos ==
  {<<(<<"done", d>>), (<<"label", l>>)>> : d \in Bools, l \in Labels}
    \cup {<<(<<"label", l>>), (<<"done", d>>)>> : d \in Bools, l \in Labels}

\* item[key]
Field(item, key) ==
  IF \E i \in 1..Len(item) : item[i][1] = key
  THEN item[CHOOSE i \in 1..Len(item) : item[i][1] = key][2]
  ELSE "undefined"

\* item[key] = value
SetField(item, key, value) ==
  IF \E i \in 1..Len(item) : item[i][1] = key
  THEN [i \in 1..Len(item) |-> IF item[i][1] = key THEN <<key, value>> ELSE item[i]]
  ELSE Append(item, <<key, value>>)

\* JSON.stringify of an array of objects, as the sequence of its tokens
\* ("," and ":" left out)
RECURSIVE stringifyMembers(_)
stringifyMembers(item) ==
  IF item = << >> THEN << >> ELSE Head(item) \o stringifyMembers(Tail(item))

RECURSIVE stringifyItems(_)
stringifyItems(arr) ==
  IF arr = << >> THEN << >>
  ELSE <<"{">> \o stringifyMembers(Head(arr)) \o <<"}">> \o stringifyItems(Tail(arr))

JSONstringify(arr) == <<"[">> \o stringifyItems(arr) \o <<"]">>

\* JSON.parse of a token sequence: ok with the array, or a SyntaxError
SyntaxError == [ok |-> FALSE, val |-> << >>, rest |-> << >>]
JSONKeys == {"id", "label", "done"}
JSONValues == UUIDs \cup Labels \cup Bools

RECURSIVE parseMembers(_, _)
parseMembers(ts, acc) ==
  IF ts = << >> THEN SyntaxError
  ELSE IF Head(ts) = "}" THEN [ok |-> TRUE, val |-> acc, rest |-> Tail(ts)]
  ELSE IF Len(ts) >= 2 /\ ts[1] \in JSONKeys /\ ts[2] \in JSONValues
       THEN parseMembers(Tail(Tail(ts)), SetField(acc, ts[1], ts[2]))
  ELSE SyntaxError

RECURSIVE parseItems(_, _)
parseItems(ts, acc) ==
  IF ts = << >> THEN SyntaxError
  ELSE IF Head(ts) = "]"
       THEN IF Tail(ts) = << >> THEN [ok |-> TRUE, val |-> acc, rest |-> << >>]
            ELSE SyntaxError
  ELSE IF Head(ts) = "{"
       THEN LET m == parseMembers(Tail(ts), << >>)
            IN  IF m.ok THEN parseItems(m.rest, Append(acc, m.val)) ELSE SyntaxError
  ELSE SyntaxError

JSONparse(ts) ==
  IF ts # << >> /\ Head(ts) = "[" THEN parseItems(Tail(ts), << >>) ELSE SyntaxError

\* the initializer of the signal: read TODO_ITEMS, parse it, [] when it is
\* absent, empty or unparsable
loadTodoItems(stored) ==
  IF stored.has /\ stored.text # << >>
  THEN LET r == JSONparse(stored.text) IN IF r.ok THEN r.val ELSE << >>
  ELSE << >>

\* todoItems(): the read of the signal
todoItemsGet(db) ==
  [db EXCEPT !.subs = IF db.active # Null THEN SetAdd(@, db.active) ELSE @]

\* the effect of the module: localStorage.setItem("TODO_ITEMS", JSON.stringify(todoItems()))
persistEffect(db) ==
  LET d1 == todoItemsGet(db)
  IN  [d1 EXCEPT !.stored = [has |-> TRUE, text |-> JSONstringify(d1.items)]]

\* setTodoItems without the subscribers being run
setTodoItemsSilently(db, arr) == [db EXCEPT !.items = arr]

\* setTodoItems(updater) with the updater's result: assign, run the subscribers
setTodoItems(db, arr) ==
  LET RECURSIVE Each(_, _)
      Each(d, i) == IF i > Len(d.subs) THEN d ELSE Each(persistEffect(d), i + 1)
  IN  Each([db EXCEPT !.items = arr], 1)

\* the module body: createSignal(initializer), then createEffect(persist)
todoDb(stored) ==
  LET d0 == [items |-> loadTodoItems(stored), stored |-> stored,
             subs |-> << >>, active |-> PersistEff]
  IN  [persistEffect(d0) EXCEPT !.active = Null]

\* arr.splice(position, 0, item) on a copy
Splice(arr, position, item) ==
  LET len == Len(arr)
      at == IF position < 0
            THEN (IF len + position < 0 THEN 0 ELSE len + position)
            ELSE (IF position > len THEN len ELSE position)
  IN  SubSeq(arr, 1, at) \o <<item>> \o SubSeq(arr, at + 1, len)

\* items.filter(item => item.id !== id)
RECURSIVE FilterOut(_, _)
FilterOut(arr, id) ==
  IF arr = << >> THEN << >>
  ELSE (IF Field(Head(arr), "id") # id THEN <<Head(arr)>> ELSE << >>)
         \o FilterOut(Tail(arr), id)

addTodo(db, todo, uuid) ==
  setTodoItems(db, <<Append(todo, <<"id", uuid>>)>> \o db.items)

addAt(db, todo, position, uuid) ==
  setTodoItems(db, Splice(db.items, position, Append(todo, <<"id", uuid>>)))

removeTodo(db, id) == setTodoItems(db, FilterOut(db.items, id))

updateTodo(db, id, key, value) ==
  setTodoItems(db, [i \in 1..Len(db.items) |->
                      IF Field(db.items[i], "id") = id
                      THEN SetField(db.items[i], key, value) ELSE db.items[i]])

\* ======================= a remove-strategy conditional with a reactive component
\* conditionalComponent({ tagName, classes: () => s() }, c, "remove"): every
\* build of the component creates an effect that reads the cell s
\* how many times the component is built
MaxBuilds == 3

Builds == 1..MaxBuilds
\* the effect of conditionalComponent; the class effect of build g is g
ToggleEff == MaxBuilds + 1

\* s() and c()
mountGet(ms, cell) ==
  [ms EXCEPT !.subs[cell] = IF ms.active # Null THEN SetAdd(@, ms.active) ELSE @]

\* the effect function of the class producer of build g
mountClassEffect(ms, g) ==
  LET s1 == mountGet(ms, "s")
  IN  [s1 EXCEPT !.classOf[g] = s1.s, !.ran[g] = @ + 1]

\* createComponent(options): a new element, createEffect(class effect)
mountBuild(ms) ==
  IF ms.builds >= MaxBuilds THEN [ms EXCEPT !.err = "cap"]
  ELSE LET g == ms.builds + 1
       IN  [mountClassEffect([ms EXCEPT !.builds = g, !.active = g], g)
              EXCEPT !.active = Null, !.elm = g]

\* the substitution with the effect of the removed component unsubscribed
mountSubstituteAndUnsubscribe(ms) ==
  IF ms.c
  THEN IF ms.elm = Null
       THEN [mountBuild(ms) EXCEPT !.inParent = ms.builds + 1]
       ELSE ms
  ELSE IF ms.elm # Null
       THEN [ms EXCEPT !.elm = Null, !.inParent = Null,
                       !.subs["s"] = SelectSeq(@, LAMBDA g : g # ms.elm)]
       ELSE ms

\* the effect function of the remove strategy once the parent is known:
\* replaceChild(elm, placeholder) or replaceChild(placeholder, elm)
mountSubstitute(ms) ==
  IF ms.c
  THEN IF ms.elm = Null
       THEN [mountBuild(ms) EXCEPT !.inParent = ms.builds + 1]
       ELSE ms
  ELSE IF ms.elm # Null
       THEN [ms EXCEPT !.elm = Null, !.inParent = Null]
       ELSE ms

mountToggleEffect(ms) ==
  LET s1 == mountGet(ms, "c")
  IN  IF s1.err # "none" THEN s1
      ELSE mountSubstitute([s1 EXCEPT !.ran[ToggleEff] = @ + 1])

\* the writers of the two cells: assign, then run every subscriber
RECURSIVE mountNotify(_, _, _)
mountNotify(ms, cell, i) ==
  IF ms.err # "none" \/ i > Len(ms.subs[cell]) THEN ms
  ELSE LET e == ms.subs[cell][i]
       IN  mountNotify(IF e = ToggleEff THEN mountToggleEffect(ms)
                       ELSE mountClassEffect(ms, e), cell, i + 1)

mountSetS(ms, v) == mountNotify([ms EXCEPT !.s = v], "s", 1)

mountSetC(ms, v) == mountNotify([ms EXCEPT !.c = v], "c", 1)

\* parent.appendChild(conditionalComponent(options, c, "remove")): the first
\* run builds the component or a placeholder, and the returned node is attached
mountCreate(c0, s0) ==
  LET m0 == [c |-> c0, s |-> s0, subs |-> [cell \in {"c", "s"} |-> << >>],
             active |-> ToggleEff, builds |-> 0, elm |-> Null, inParent |-> Null,
             classOf |-> [g \in Builds |-> Null],
             ran |-> [e \in 1..ToggleEff |-> 0], err |-> "none"]
      m1 == mountGet(m0, "c")
      m2 == IF m1.c THEN mountBuild(m1) ELSE m1
  IN  [m2 EXCEPT !.active = Null, !.inParent = m2.elm]

\* ============================================ createComponent: the attributes
\* the most entries the `attributes` record of a configuration has
MaxAttrs == 2

\* attribute names, in the lower case an HTML element stores them in
AttrNames == {"disabled", "title"}

\* the JS values a literal or a producer yields: undefined, null, numbers and
\* strings
Undefined == [t |-> "undefined", n |-> 0, s |-> ""]
JSNull == [t |-> "null", n |-> 0, s |-> ""]
Num(n) == [t |-> "number", n |-> n, s |-> ""]
Str(s) == [t |-> "string", n |-> 0, s |-> s]
JSValues == {Undefined, JSNull, Num(0), Num(1), Str(""), Str("a")}
Literals == {Num(0), Str(""), Str("a")}

\* val.toString() of a number or a string
toString(v) == IF v.t = "number" THEN ToString(v.n) ELSE v.s

\* the producers of the configurations:
\*   value   () => v()
\*   flag    () => (g() ? "true" : null)
\*   gated   () => (g() ? v() : null)
Producers == {"value", "flag", "gated"}
AttrEntries ==
  [name : AttrNames, kind : {"literal"}, lit : Literals]
    \cup [name : AttrNames, kind : Producers, lit : {Undefined}]
\* Object.entries(attributes): the keys of a record are distinct
AttrConfigs ==
  {cfg \in UNION {[1..n -> AttrEntries] : n \in 0..MaxAttrs} :
     \A i, j \in 1..Len(cfg) : i # j => cfg[i].name # cfg[j].name}

\* get() of the cell g or v
attrGet(as, cell) ==
  [as EXCEPT !.subs[cell] = IF as.active # Null THEN SetAdd(@, as.active) ELSE @]

\* value(): the state after the producer's reads, and what it returned
produce(as, kind) ==
  CASE kind = "value" -> [st |-> attrGet(as, "v"), val |-> as.value]
    [] kind = "flag" ->
         [st |-> attrGet(as, "g"), val |-> IF as.gate THEN Str("true") ELSE JSNull]
    [] OTHER ->
         LET s1 == attrGet(as, "g")
         IN  IF as.gate THEN [st |-> attrGet(s1, "v"), val |-> as.value]
             ELSE [st |-> s1, val |-> JSNull]

\* element.setAttribute(attr, s) and element.removeAttribute(attr); an absent
\* attribute is << >>, a present one <<its value>>
setAttribute(attrs, attr, s) == [attrs EXCEPT ![attr] = <<s>>]
removeAttribute(attrs, attr) == [attrs EXCEPT ![attr] = << >>]

\* the effect function of entry i: set the attribute to the string form of the
\* produced value, or remove it when that value is undefined or null
attrEffect(as, i) ==
  LET p == produce(as, as.config[i].kind)
      attr == as.config[i].name
  IN  [p.st EXCEPT !.attrs = IF p.val.t \notin {"undefined", "null"}
                             THEN setAttribute(@, attr, toString(p.val))
                             ELSE removeAttribute(@, attr),
                   !.ran[i] = @ + 1]

\* the loop over Object.entries(attributes), from entry i on: createEffect for
\* a producer, setAttribute for a literal
RECURSIVE applyAttributes(_, _)
applyAttributes(as, i) ==
  IF i > Len(as.config) THEN as
  ELSE LET e == as.config[i]
       IN  applyAttributes(
             IF e.kind = "literal"
             THEN [as EXCEPT !.attrs = setAttribute(@, e.name, toString(e.lit))]
             ELSE [attrEffect([as EXCEPT !.active = i], i) EXCEPT !.active = Null],
             i + 1)

\* createComponent({ tagName, attributes }) over cells that hold g0 and v0
buildAttributes(cfg, g0, v0) ==
  applyAttributes([config |-> cfg, gate |-> g0, value |-> v0,
                   subs |-> [cell \in {"g", "v"} |-> << >>], active |-> Null,
                   attrs |-> [a \in AttrNames |-> << >>],
                   ran |-> [i \in 1..MaxAttrs |-> 0]], 1)

\* subscribers.forEach(fn => fn()) of the cell g or v
RECURSIVE attrNotify(_, _, _)
attrNotify(as, cell, i) ==
  IF i > Len(as.subs[cell]) THEN as
  ELSE attrNotify(attrEffect(as, as.subs[cell][i]), cell, i + 1)

\* set(b) of the cell g and set(v) of the cell v
attrSetG(as, b) == attrNotify([as EXCEPT !.gate = b], "g", 1)
attrSetV(as, v) == attrNotify([as EXCEPT !.value = v], "v", 1)

\* ================================= conditionalComponent: the display strategy
\* the effect function of the display strategy
DisplayEff == 1

\* the condition functions:
\*   a        () => a()
\*   both     () => a() && b()
\*   either   () => a() || b()
Conditions == {"a", "both", "either"}

\* get() of the cell a or b
displayGet(ds, cell) ==
  [ds EXCEPT !.subs[cell] = IF ds.active # Null THEN SetAdd(@, ds.active) ELSE @]

\* condition(): the state after its reads, and what it returned; && and ||
\* read their right operand only when the left one does not decide
displayCondition(ds) ==
  LET s1 == displayGet(ds, "a")
  IN  CASE ds.kind = "a" -> [st |-> s1, val |-> ds.a]
        [] ds.kind = "both" ->
             IF ds.a THEN [st |-> displayGet(s1, "b"), val |-> ds.b]
             ELSE [st |-> s1, val |-> FALSE]
        [] OTHER ->
             IF ds.a THEN [st |-> s1, val |-> TRUE]
             ELSE [st |-> displayGet(s1, "b"), val |-> ds.b]

\* the effect function: component.style.display = condition() ? "" : "none"
displayEffect(ds) ==
  LET p == displayCondition(ds)
  IN  [p.st EXCEPT !.display = IF p.val THEN "" ELSE "none", !.ran = @ + 1]

\* conditionalComponent(options, condition, "display") over cells that hold a0
\* and b0: createComponent once, createEffect once, return the component
conditionalDisplay(kind, a0, b0) ==
  LET d0 == [kind |-> kind, a |-> a0, b |-> b0,
             subs |-> [cell \in {"a", "b"} |-> << >>], active |-> Null,
             display |-> "", builds |-> 1, ran |-> 0]
  IN  [displayEffect([d0 EXCEPT !.active = DisplayEff]) EXCEPT !.active = Null]

\* subscribers.forEach(fn => fn()) of the cell a or b
RECURSIVE displayNotify(_, _, _)
displayNotify(ds, cell, i) ==
  IF i > Len(ds.subs[cell]) THEN ds
  ELSE displayNotify(displayEffect(ds), cell, i + 1)

\* set(v) of the cell a and of the cell b
displaySetA(ds, v) == displayNotify([ds EXCEPT !.a = v], "a", 1)
displaySetB(ds, v) == displayNotify([ds EXCEPT !.b = v], "b", 1)

\* ------------------------------------------------------------------ state
VARIABLES
  \* --- the reactive core
  cellValue,     \* createSignal: value, per cell
  subscribers,   \* createSignal: subscribers, per cell, in insertion order
  activeEffect,  \* the module's activeEffect slot
  effBody,       \* the function of each effect created so far
  nEffects,      \* how many effect functions exist
  lastRead,      \* per effect: the cells its most recent invocation read
  initRead,      \* per effect: the cells its own statements read in its initial run
  last,          \* the last top-level call and what it did
  \* --- one listComponent instance and the caller's data
  items,         \* the value of the items cell
  content,       \* the mutable field of every item object
  render,        \* the caller's renderItem
  itemMap,       \* itemMap, in insertion order
  parentNode,    \* listComponent's parentNode
  referenceElm,  \* listComponent's referenceElm
  kids,          \* the parent element's childNodes
  cellVal,       \* value of the per-item cell of each tracked item
  cellSubs,      \* subscribers of the per-item cell of each tracked item
  text,          \* what each rendered node shows
  itemsSubs,     \* subscribers of the items cell
  returned,      \* the nodes listComponent returned
  attached,      \* whether the caller has appended them to the parent
  early,         \* how often the items cell was written before that
  writes,        \* how often the items cell was written in all
  llast,         \* the last top-level call on the list and what it did
  \* --- one conditionalComponent instance (remove strategy) and its surroundings
  cond,          \* the value of the condition cell
  condSubs,      \* subscribers of the condition cell
  elm,           \* conditionalComponent's elm
  placeholder,   \* conditionalComponent's placeholder
  condParent,    \* conditionalComponent's parentNode
  condRet,       \* the node conditionalComponent returned
  condKids,      \* the childNodes of the element the caller puts it in
  condAttached,  \* whether the caller has put it there
  clast,         \* the last top-level call on the conditional and what it did
  \* --- one element built by createComponent with a `classes` option
  tagClasses,    \* the classes its tag-path gives
  classEntries,  \* the entries of `classes`
  classCell,     \* the value of the cell each dynamic entry reads
  classSubs,     \* the subscribers of those cells
  referenceClass,\* referenceClass of each dynamic entry's effect
  classList,     \* element.classList
  klast,         \* the last top-level call on it
  \* --- one node made by inputComponent and the cell it is bound to
  inputTag,      \* "input" or "textarea"
  textCell,      \* the value of the cell
  textSubs,      \* the subscribers of the cell
  inputValue,    \* input.value
  ilast,         \* the last top-level call on them
  \* --- one call of createComponent with a tag-path
  tagSegments,   \* the segments the tag-path was written from
  tagName,       \* the tag-path string
  tagFields,     \* the fields the configuration has besides tagName
  tagBuilt,      \* what createComponent built and returned, once called
  \* --- the store of todo-db
  todoItems,     \* the value of the signal
  todoSubs,      \* its subscribers
  storedItems,   \* localStorage's TODO_ITEMS: present or not, and its text
  slast,         \* the last top-level call on the store
  \* --- a remove-strategy conditional whose component reads a cell
  mountC,        \* the condition cell
  mountS,        \* the cell the component's class producer reads
  mountSubs,     \* the subscribers of the two cells
  mountBuilds,   \* how many components were built
  mountElm,      \* elm of the conditional: the current build, or none
  mountInParent, \* the build that is a child of the parent (none: a placeholder)
  mountClassOf,  \* the class each built element carries
  mlast,         \* the last top-level call on them
  \* --- one element built by createComponent with an `attributes` record
  attrConfig,    \* the entries of the record, in the order of Object.entries
  attrG,         \* the value of the cell g
  attrV,         \* the value of the cell v
  attrSubs,      \* the subscribers of the two cells
  attributes,    \* the element's attributes
  alast,         \* the last top-level call on them
  \* --- a display-strategy conditional
  displayKind,   \* the condition function
  displayA,      \* the value of the cell a
  displayB,      \* the value of the cell b
  displaySubs,   \* the subscribers of the two cells
  display,       \* component.style.display
  displayBuilds, \* how many components the conditional built
  displayKids,   \* the children of the parent the caller attaches the node to
  dlast          \* the last top-level call on them

coreVars == <<cellValue, subscribers, effBody, nEffects, lastRead, initRead, last>>

listVars ==
  <<items, content, render, itemMap, parentNode, referenceElm, kids, cellVal,
    cellSubs, text, itemsSubs, returned, attached, early, writes, llast>>

condVars ==
  <<cond, condSubs, elm, placeholder, condParent, condRet, condKids, condAttached,
    clast>>

classVars ==
  <<tagClasses, classEntries, classCell, classSubs, referenceClass, classList, klast>>

inputVars == <<inputTag, textCell, textSubs, inputValue, ilast>>

tagVars == <<tagSegments, tagName, tagFields, tagBuilt>>

storeVars == <<todoItems, todoSubs, storedItems, slast>>

mountVars ==
  <<mountC, mountS, mountSubs, mountBuilds, mountElm, mountInParent, mountClassOf,
    mlast>>

attrVars == <<attrConfig, attrG, attrV, attrSubs, attributes, alast>>

displayVars ==
  <<displayKind, displayA, displayB, displaySubs, display, displayBuilds,
    displayKids, dlast>>

vars ==
  <<activeEffect, coreVars, listVars, condVars, classVars, inputVars, tagVars,
    storeVars, mountVars, attrVars, displayVars>>

\* what a call into one part leaves alone
exceptCore ==
  <<listVars, condVars, classVars, inputVars, tagVars, storeVars, mountVars,
    attrVars, displayVars>>
exceptList ==
  <<coreVars, condVars, classVars, inputVars, tagVars, storeVars, mountVars,
    attrVars, displayVars>>
exceptCond ==
  <<coreVars, listVars, classVars, inputVars, tagVars, storeVars, mountVars,
    attrVars, displayVars>>
exceptClass ==
  <<coreVars, listVars, condVars, inputVars, tagVars, storeVars, mountVars,
    attrVars, displayVars>>
exceptInput ==
  <<coreVars, listVars, condVars, classVars, tagVars, storeVars, mountVars,
    attrVars, displayVars>>
exceptStore ==
  <<coreVars, listVars, condVars, classVars, inputVars, tagVars, mountVars,
    attrVars, displayVars>>
exceptMount ==
  <<coreVars, listVars, condVars, classVars, inputVars, tagVars, storeVars,
    attrVars, displayVars>>
exceptTag ==
  <<coreVars, listVars, condVars, classVars, inputVars, storeVars, mountVars,
    attrVars, displayVars>>

exceptAttr ==
  <<coreVars, listVars, condVars, classVars, inputVars, tagVars, storeVars,
    mountVars, displayVars>>
exceptDisplay ==
  <<coreVars, listVars, condVars, classVars, inputVars, tagVars, storeVars,
    mountVars, attrVars>>

NoRuns == [e \in EffIds |-> 0]

CoreState ==
  [val |-> cellValue, subs |-> subscribers, active |-> activeEffect,
   body |-> effBody, n |-> nEffects, lastRead |-> lastRead, initRead |-> initRead,
   ran |-> NoRuns, nw |-> 0, err |-> "none", want |-> cellValue, stale |-> FALSE,
   written |-> {}]

Commit(raw, kind, c, e) ==
  \E res \in {raw} :
  /\ res.err # "cap"
  /\ cellValue' = res.val
  /\ subscribers' = res.subs
  /\ activeEffect' = res.active
  /\ effBody' = res.body
  /\ nEffects' = res.n
  /\ lastRead' = res.lastRead
  /\ initRead' = res.initRead
  /\ last' = [kind |-> kind, c |-> c, eff |-> e, err |-> res.err, ran |-> res.ran,
              nw |-> res.nw, stale |-> res.stale, written |-> res.written,
              same |-> kind = "write" /\ res.err = "none" /\ res.val[c] = cellValue[c]]

\* the core before any cell or effect is used
CoreIdle ==
  /\ cellValue = [c \in Cells |-> 0]
  /\ subscribers = [c \in Cells |-> << >>]
  /\ effBody = [e \in EffIds |-> << >>]
  /\ nEffects = 0
  /\ lastRead = [e \in EffIds |-> {}]
  /\ initRead = [e \in EffIds |-> {}]
  /\ last = [kind |-> "init", c |-> Null, eff |-> Null, err |-> "none", ran |-> NoRuns,
             nw |-> 0, stale |-> FALSE, written |-> {}, same |-> FALSE]

\* no list was built
ListIdle ==
  /\ items = << >>
  /\ content = [o \in Objs |-> 0]
  /\ render = << >>
  /\ itemMap = << >>
  /\ parentNode = Null
  /\ referenceElm = Null
  /\ kids = << >>
  /\ cellVal = [o \in Objs |-> Null]
  /\ cellSubs = [o \in Objs |-> << >>]
  /\ text = [n \in Nodes |-> Null]
  /\ itemsSubs = << >>
  /\ returned = << >>
  /\ attached = FALSE
  /\ early = 0
  /\ writes = 0
  /\ llast = [kind |-> "idle", err |-> "none",
              renders |-> [o \in Objs |-> 0], setCalls |-> [o \in Objs |-> 0],
              wasEmpty |-> FALSE]

\* no conditional was built
CondIdle ==
  /\ cond = FALSE
  /\ condSubs = << >>
  /\ elm = Null
  /\ placeholder = Null
  /\ condParent = Null
  /\ condRet = Null
  /\ condKids = << >>
  /\ condAttached = FALSE
  /\ clast = [kind |-> "idle", err |-> "none", swaps |-> 0]

\* no element with classes was built
ClassIdle ==
  /\ tagClasses = {}
  /\ classEntries = << >>
  /\ classCell = [k \in Entries |-> Null]
  /\ classSubs = [k \in Entries |-> << >>]
  /\ referenceClass = [k \in Entries |-> Null]
  /\ classList = {}
  /\ klast = [kind |-> "idle", k |-> Null, prev |-> Null]

\* no bound input was made
InputIdle ==
  /\ inputTag = "input"
  /\ textCell = << >>
  /\ textSubs = << >>
  /\ inputValue = << >>
  /\ ilast = [kind |-> "idle", v |-> << >>, runs |-> 0]

\* no tag-path was given
NotBuilt == [els |-> << >>, root |-> Null]
TagIdle ==
  /\ tagSegments = << >>
  /\ tagName = << >>
  /\ tagFields = {}
  /\ tagBuilt = NotBuilt

\* the module todo-db was not loaded
StoreIdle ==
  /\ todoItems = << >>
  /\ todoSubs = << >>
  /\ storedItems = [has |-> FALSE, text |-> << >>]
  /\ slast = [kind |-> "idle", loaded |-> [has |-> FALSE, text |-> << >>]]

\* no such conditional was made
MountIdle ==
  /\ mountC = FALSE
  /\ mountS = Null
  /\ mountSubs = [cell \in {"c", "s"} |-> << >>]
  /\ mountBuilds = 0
  /\ mountElm = Null
  /\ mountInParent = Null
  /\ mountClassOf = [g \in Builds |-> Null]
  /\ mlast = [kind |-> "idle", ran |-> [e \in 1..ToggleEff |-> 0]]

\* no element with attributes was built
AttrIdle ==
  /\ attrConfig = << >>
  /\ attrG = FALSE
  /\ attrV = Undefined
  /\ attrSubs = [cell \in {"g", "v"} |-> << >>]
  /\ attributes = [a \in AttrNames |-> << >>]
  /\ alast = [kind |-> "idle", cell |-> "", ran |-> [i \in 1..MaxAttrs |-> 0]]

\* no display-strategy conditional was made
DisplayIdle ==
  /\ displayKind = "a"
  /\ displayA = FALSE
  /\ displayB = FALSE
  /\ displaySubs = [cell \in {"a", "b"} |-> << >>]
  /\ display = ""
  /\ displayBuilds = 0
  /\ displayKids = << >>
  /\ dlast = [kind |-> "idle", cell |-> "", ran |-> 0]

IdleExceptAttr ==
  CoreIdle /\ ListIdle /\ CondIdle /\ ClassIdle /\ InputIdle /\ TagIdle /\ StoreIdle
    /\ MountIdle /\ DisplayIdle
IdleExceptDisplay ==
  CoreIdle /\ ListIdle /\ CondIdle /\ ClassIdle /\ InputIdle /\ TagIdle /\ StoreIdle
    /\ MountIdle /\ AttrIdle
IdleExceptStore ==
  CoreIdle /\ ListIdle /\ CondIdle /\ ClassIdle /\ InputIdle /\ TagIdle /\ MountIdle
    /\ AttrIdle /\ DisplayIdle
IdleExceptMount ==
  CoreIdle /\ ListIdle /\ CondIdle /\ ClassIdle /\ InputIdle /\ TagIdle /\ StoreIdle
    /\ AttrIdle /\ DisplayIdle
IdleExceptCore ==
  ListIdle /\ CondIdle /\ ClassIdle /\ InputIdle /\ TagIdle /\ StoreIdle /\ MountIdle
    /\ AttrIdle /\ DisplayIdle
IdleExceptList ==
  CoreIdle /\ CondIdle /\ ClassIdle /\ InputIdle /\ TagIdle /\ StoreIdle /\ MountIdle
    /\ AttrIdle /\ DisplayIdle
IdleExceptCond ==
  CoreIdle /\ ListIdle /\ ClassIdle /\ InputIdle /\ TagIdle /\ StoreIdle /\ MountIdle
    /\ AttrIdle /\ DisplayIdle
IdleExceptClass ==
  CoreIdle /\ ListIdle /\ CondIdle /\ InputIdle /\ TagIdle /\ StoreIdle /\ MountIdle
    /\ AttrIdle /\ DisplayIdle
IdleExceptInput ==
  CoreIdle /\ ListIdle /\ CondIdle /\ ClassIdle /\ TagIdle /\ StoreIdle /\ MountIdle
    /\ AttrIdle /\ DisplayIdle
IdleExceptTag ==
  CoreIdle /\ ListIdle /\ CondIdle /\ ClassIdle /\ InputIdle /\ StoreIdle /\ MountIdle
    /\ AttrIdle /\ DisplayIdle

CoreInit == CoreIdle /\ IdleExceptCore /\ activeEffect = Null

\* a top-level createEffect(fn)
CreateEffect ==
  \E b \in EffectBodies :
    /\ nEffects < MaxEffects
    /\ Commit(createEffect(CoreState, b, 0), "create", Null, nEffects + 1)
    /\ UNCHANGED exceptCore

\* a top-level write of a literal
Write ==
  \E c \in Cells, v \in Vals :
    /\ Commit(set(CoreState, c, v, 0), "write", c, Null)
    /\ UNCHANGED exceptCore

\* a top-level write with an updater function
Update ==
  \E c \in Cells :
    /\ Commit(setWith(CoreState, c, 0), "write", c, Null)
    /\ UNCHANGED exceptCore

\* a top-level read, outside of any effect function
Read ==
  \E c \in Cells :
    /\ Commit([CoreState EXCEPT !.subs[c] =
                 IF activeEffect # Null THEN SetAdd(@, activeEffect) ELSE @],
              "read", c, Null)
    /\ UNCHANGED exceptCore

CoreNext == CreateEffect \/ Write \/ Update \/ Read

SpecCore == CoreInit /\ [][CoreNext]_vars

\* ------------------------------------------------------- the list, top level
ListState ==
  [items |-> items, content |-> content, render |-> render, map |-> itemMap,
   parentNode |-> parentNode, referenceElm |-> referenceElm, kids |-> kids,
   used0 |-> NodesInUse([map |-> itemMap, kids |-> kids, returned |-> returned,
                         referenceElm |-> referenceElm]),
   cellVal |-> cellVal, cellSubs |-> cellSubs, text |-> text,
   itemsSubs |-> itemsSubs, active |-> activeEffect,
   renders |-> [o \in Objs |-> 0], setCalls |-> [o \in Objs |-> 0], err |-> "none",
   returned |-> returned]

ListCommit(raw, kind, max) ==
  /\ llast.err = "none"
  /\ attached \/ early < MaxEarly
  /\ writes < max
  /\ \E res \in {Collect(raw)} :
       /\ res.err # "cap"
       /\ items' = res.items
       /\ content' = res.content
       /\ render' = res.render
       /\ itemMap' = res.map
       /\ parentNode' = res.parentNode
       /\ referenceElm' = res.referenceElm
       /\ kids' = res.kids
       /\ cellVal' = res.cellVal
       /\ cellSubs' = res.cellSubs
       /\ text' = res.text
       /\ itemsSubs' = res.itemsSubs
       /\ activeEffect' = res.active
       /\ returned' = res.returned
       /\ attached' = attached
       /\ early' = IF attached THEN early ELSE early + 1
       /\ writes' = writes + 1
       /\ llast' = [kind |-> kind, err |-> res.err, renders |-> res.renders,
                    setCalls |-> res.setCalls, wasEmpty |-> items = << >>]

\* the state right after `const nodes = listComponent(items, renderItem)`
ListStart(len) ==
  /\ IdleExceptList
  /\ attached = FALSE
  /\ early = 0
  /\ writes = 0
  /\ \E c0 \in InitialCollections(len), rp \in RenderProgs :
       \E res \in {listComponent(c0, [o \in Objs |-> 0], rp)} :
           /\ items = res.items
           /\ content = res.content
           /\ render = res.render
           /\ itemMap = res.map
           /\ parentNode = res.parentNode
           /\ referenceElm = res.referenceElm
           /\ kids = res.kids
           /\ cellVal = res.cellVal
           /\ cellSubs = res.cellSubs
           /\ text = res.text
           /\ itemsSubs = res.itemsSubs
           /\ activeEffect = res.active
           /\ returned = res.returned
           /\ llast = [kind |-> "listComponent", err |-> res.err,
                       renders |-> res.renders, setCalls |-> res.setCalls,
                       wasEmpty |-> FALSE]

\* the caller appends the returned nodes to the (empty) parent element, as
\* createComponent does with `children: listComponent(...)`
Attach ==
  /\ ~attached
  /\ llast.err = "none"
  /\ attached' = TRUE
  /\ kids' = returned
  /\ returned' = << >>
  /\ llast' = [kind |-> "attach", err |-> "none",
               renders |-> [o \in Objs |-> 0], setCalls |-> [o \in Objs |-> 0],
               wasEmpty |-> FALSE]
  /\ UNCHANGED <<items, content, render, itemMap, parentNode, referenceElm,
                 cellVal, cellSubs, text, itemsSubs, early, writes, activeEffect>>
  /\ UNCHANGED exceptList

\* several writes over a small universe of objects
ListInit == ListStart(MaxLen)

\* setTodoItems(items => next): a new collection (addTodo, addAt, removeTodo, or
\* any reordering)
SetItems ==
  \E next \in Collections :
    /\ ListCommit(itemsSet(ListState, next), "write", MaxWrites)
    /\ UNCHANGED exceptList

\* updateTodo(id, key, value): mutate the item in place, then write a new array
\* of the same identities
UpdateTodo ==
  \E o \in Range(items), v \in Vals :
    /\ ListCommit(itemsSet([ListState EXCEPT !.content[o] = v], items), "write",
                  MaxWrites)
    /\ UNCHANGED exceptList

ListNext == Attach \/ SetItems \/ UpdateTodo

SpecList == ListInit /\ [][ListNext]_vars

\* the same list over a collection that is empty at first
EmptyInit == ListStart(0)

SpecListEmpty == EmptyInit /\ [][ListNext]_vars

\* a single write over the wider universe
WideInit == ListStart(WideLen)

SetItemsWide ==
  \E next \in WideCollections :
    /\ ListCommit(itemsSet(ListState, next), "write", WideWrites)
    /\ UNCHANGED exceptList

UpdateTodoWide ==
  \E o \in Range(items), v \in Vals :
    /\ ListCommit(itemsSet([ListState EXCEPT !.content[o] = v], items), "write",
                  WideWrites)
    /\ UNCHANGED exceptList

WideNext == Attach \/ SetItemsWide \/ UpdateTodoWide

SpecListWide == WideInit /\ [][WideNext]_vars

\* ------------------------------------------------ the conditional, top level
CondState ==
  [cond |-> cond, subs |-> condSubs, elm |-> elm, placeholder |-> placeholder,
   parentNode |-> condParent, kids |-> condKids, ret |-> condRet,
   used0 |-> {elm, placeholder, condRet} \cup Range(condKids),
   active |-> activeEffect, swaps |-> 0, err |-> "none"]

CondCommit(raw, kind) ==
  \E res \in {raw} :
    /\ res.err # "cap"
    /\ cond' = res.cond
    /\ condSubs' = res.subs
    /\ elm' = res.elm
    /\ placeholder' = res.placeholder
    /\ condParent' = res.parentNode
    /\ condRet' = res.ret
    /\ condKids' = res.kids
    /\ activeEffect' = res.active
    /\ clast' = [kind |-> kind, err |-> res.err, swaps |-> res.swaps]

\* the state right after `const node = conditionalComponent(options, c, "remove")`
CondInit ==
  /\ IdleExceptCond
  /\ condAttached = FALSE
  /\ \E c0 \in BOOLEAN :
       \E res \in {conditionalComponent(c0)} :
         /\ cond = res.cond
         /\ condSubs = res.subs
         /\ elm = res.elm
         /\ placeholder = res.placeholder
         /\ condParent = res.parentNode
         /\ condRet = res.ret
         /\ condKids = res.kids
         /\ activeEffect = res.active
         /\ clast = [kind |-> "conditionalComponent", err |-> res.err,
                     swaps |-> res.swaps]

\* the caller builds the parent element with the returned node as one of its
\* children, after pos of the other children
CondAttach ==
  \E pos \in 0..NumSiblings :
    /\ ~condAttached
    /\ condAttached' = TRUE
    /\ condKids' = [j \in 1..pos |-> j] \o <<condRet>>
                      \o [j \in 1..(NumSiblings - pos) |-> pos + j]
    /\ condRet' = Null
    /\ clast' = [kind |-> "attach", err |-> "none", swaps |-> 0]
    /\ UNCHANGED <<cond, condSubs, elm, placeholder, condParent, activeEffect>>
    /\ UNCHANGED exceptCond

\* a write of the condition cell
WriteCond ==
  \E v \in BOOLEAN :
    /\ CondCommit(conditionSet(CondState, v), "write")
    /\ condAttached' = condAttached
    /\ UNCHANGED exceptCond

CondNext == CondAttach \/ WriteCond

SpecCond == CondInit /\ [][CondNext]_vars

\* ------------------------------------------------- the class list, top level
ClassState ==
  [classList |-> classList, entries |-> classEntries, cell |-> classCell,
   ref |-> referenceClass, subs |-> classSubs, active |-> activeEffect]

\* the state right after createComponent({ tagName, classes })
ClassInit ==
  /\ IdleExceptClass
  /\ \E tc \in SUBSET Classes, es \in ClassConfigs :
       \E cells \in {f \in [Entries -> {Null} \cup Classes] :
                       \A k \in Entries :
                         (k > Len(es) \/ ~es[k].dyn) => f[k] = Null} :
         \E res \in {buildClasses(tc, es, cells)} :
           /\ tagClasses = tc
           /\ classEntries = res.entries
           /\ classCell = res.cell
           /\ classSubs = res.subs
           /\ referenceClass = res.ref
           /\ classList = res.classList
           /\ activeEffect = res.active
           /\ klast = [kind |-> "createComponent", k |-> Null, prev |-> Null]

\* a write of the cell a dynamic entry reads
WriteClassCell ==
  \E k \in 1..Len(classEntries), v \in {Null} \cup Classes :
    /\ classEntries[k].dyn
    /\ \E res \in {classCellSet(ClassState, k, v)} :
         /\ classCell' = res.cell
         /\ classSubs' = res.subs
         /\ referenceClass' = res.ref
         /\ classList' = res.classList
         /\ activeEffect' = res.active
         /\ klast' = [kind |-> "write", k |-> k, prev |-> classCell[k]]
    /\ UNCHANGED <<tagClasses, classEntries>>
    /\ UNCHANGED exceptClass

ClassNext == WriteClassCell

SpecClass == ClassInit /\ [][ClassNext]_vars

\* ------------------------------------------------- the bound input, top level
InputState ==
  [tag |-> inputTag, cell |-> textCell, value |-> inputValue,
   subs |-> textSubs, active |-> activeEffect, runs |-> 0]

InputCommit(res, kind, v) ==
  /\ textCell' = res.cell
  /\ textSubs' = res.subs
  /\ inputValue' = res.value
  /\ activeEffect' = res.active
  /\ ilast' = [kind |-> kind, v |-> v, runs |-> res.runs]

\* the state right after inputComponent(...)
InputInit ==
  /\ IdleExceptInput
  /\ \E tag \in InputTags, s0 \in Strings :
       \E res \in {inputComponent(tag, s0)} :
         /\ inputTag = tag
         /\ textCell = res.cell
         /\ textSubs = res.subs
         /\ inputValue = res.value
         /\ activeEffect = res.active
         /\ ilast = [kind |-> "inputComponent", v |-> s0, runs |-> res.runs]

\* a write of the cell from outside
WriteText ==
  \E v \in Strings :
    /\ \E res \in {inputCellSet(InputState, v)} : InputCommit(res, "write", v)
    /\ UNCHANGED inputTag
    /\ UNCHANGED exceptInput

\* the user edits the node to hold v and the edit event fires
EditEvent ==
  \E v \in Editable(inputTag) :
    /\ \E res \in {inputListener([InputState EXCEPT !.value = v])} :
         InputCommit(res, "edit", v)
    /\ UNCHANGED inputTag
    /\ UNCHANGED exceptInput

InputNext == WriteText \/ EditEvent

SpecInput == InputInit /\ [][InputNext]_vars

\* ---------------------------------------------------- the tag-path, top level
\* a tag-path and a configuration, before createComponent is called
TagInit ==
  /\ IdleExceptTag
  /\ activeEffect = Null
  /\ tagSegments \in Paths
  /\ tagName = PathString(tagSegments)
  /\ tagFields \in SUBSET ConfigFields
  /\ tagBuilt = NotBuilt

\* the call createComponent({ tagName, ... })
Build ==
  /\ tagBuilt = NotBuilt
  /\ tagBuilt' = createComponent(tagName, tagFields)
  /\ UNCHANGED <<tagSegments, tagName, tagFields, activeEffect>>
  /\ UNCHANGED exceptTag

TagNext == Build

SpecTag == TagInit /\ [][TagNext]_vars

\* ------------------------------------------------------- the store, top level
StoreState ==
  [items |-> todoItems, stored |-> storedItems, subs |-> todoSubs,
   active |-> activeEffect]

StoreCommit(res, kind) ==
  /\ todoItems' = res.items
  /\ todoSubs' = res.subs
  /\ storedItems' = res.stored
  /\ activeEffect' = res.active
  /\ slast' = [slast EXCEPT !.kind = kind]
  /\ UNCHANGED exceptStore

\* what TODO_ITEMS can hold when the module is loaded: nothing, the empty
\* string, the text of a collection, or text that does not parse
StoredAtLoad ==
  {[has |-> FALSE, text |-> << >>], [has |-> TRUE, text |-> << >>]}
    \cup {[has |-> TRUE, text |-> JSONstringify(<<Append(t, <<"id", u>>)>>)] :
            t \in NewTodos, u \in UUIDs}
    \cup {[has |-> TRUE, text |-> t] :
            t \in {<<"[">>, <<"]">>, <<"[", "{">>, <<"[", "]", "]">>,
                   <<"[", "{", "id", "}", "]">>, <<"a">>}}

\* the state right after the module body has run
StoreInit ==
  /\ IdleExceptStore
  /\ \E stored \in StoredAtLoad :
       \E res \in {todoDb(stored)} :
         /\ todoItems = res.items
         /\ todoSubs = res.subs
         /\ storedItems = res.stored
         /\ activeEffect = res.active
         /\ slast = [kind |-> "load", loaded |-> stored]

AddTodo ==
  \E todo \in NewTodos, uuid \in UUIDs :
    /\ Len(todoItems) < MaxTodos
    /\ \E res \in {addTodo(StoreState, todo, uuid)} : StoreCommit(res, "addTodo")

AddAt ==
  \E todo \in NewTodos, uuid \in UUIDs, position \in (0 - 1)..(MaxTodos + 1) :
    /\ Len(todoItems) < MaxTodos
    /\ \E res \in {addAt(StoreState, todo, position, uuid)} : StoreCommit(res, "addAt")

RemoveTodo ==
  \E id \in UUIDs :
    \E res \in {removeTodo(StoreState, id)} : StoreCommit(res, "removeTodo")

UpdateTodoField ==
  \E id \in UUIDs, key \in {"label", "done"} :
    \E value \in (IF key = "label" THEN Labels ELSE Bools) :
      \E res \in {updateTodo(StoreState, id, key, value)} :
        StoreCommit(res, "updateTodo")

StoreNext == AddTodo \/ AddAt \/ RemoveTodo \/ UpdateTodoField

SpecStore == StoreInit /\ [][StoreNext]_vars

\* ------------------------------------- the reactive conditional, top level
MountState ==
  [c |-> mountC, s |-> mountS, subs |-> mountSubs, active |-> activeEffect,
   builds |-> mountBuilds, elm |-> mountElm, inParent |-> mountInParent,
   classOf |-> mountClassOf, ran |-> [e \in 1..ToggleEff |-> 0], err |-> "none"]

MountCommit(res, kind) ==
  /\ res.err = "none"
  /\ mountC' = res.c
  /\ mountS' = res.s
  /\ mountSubs' = res.subs
  /\ mountBuilds' = res.builds
  /\ mountElm' = res.elm
  /\ mountInParent' = res.inParent
  /\ mountClassOf' = res.classOf
  /\ activeEffect' = res.active
  /\ mlast' = [kind |-> kind, ran |-> res.ran]
  /\ UNCHANGED exceptMount

\* the state right after the conditional was made and attached
MountInit ==
  /\ IdleExceptMount
  /\ \E c0 \in BOOLEAN, s0 \in {Null} \cup Classes :
       \E res \in {mountCreate(c0, s0)} :
         /\ mountC = res.c
         /\ mountS = res.s
         /\ mountSubs = res.subs
         /\ mountBuilds = res.builds
         /\ mountElm = res.elm
         /\ mountInParent = res.inParent
         /\ mountClassOf = res.classOf
         /\ activeEffect = res.active
         /\ mlast = [kind |-> "conditionalComponent", ran |-> res.ran]

\* a write of the condition: an unmount, a rebuild, or neither
WriteMountC ==
  \E v \in BOOLEAN :
    \E res \in {mountSetC(MountState, v)} : MountCommit(res, "writeC")

\* a write of the cell the component reads
WriteMountS ==
  \E v \in {Null} \cup Classes :
    \E res \in {mountSetS(MountState, v)} : MountCommit(res, "writeS")

\* a read of one of the cells outside of any effect
ReadMount ==
  \E cell \in {"c", "s"} :
    \E res \in {mountGet(MountState, cell)} :
      MountCommit(res, IF cell = "c" THEN "readC" ELSE "readS")

MountNext == WriteMountC \/ WriteMountS \/ ReadMount

SpecMount == MountInit /\ [][MountNext]_vars

\* ------------------------------------------------- the attributes, top level
AttrState ==
  [config |-> attrConfig, gate |-> attrG, value |-> attrV, subs |-> attrSubs,
   active |-> activeEffect, attrs |-> attributes,
   ran |-> [i \in 1..MaxAttrs |-> 0]]

AttrCommit(res, kind, cell) ==
  /\ attrG' = res.gate
  /\ attrV' = res.value
  /\ attrSubs' = res.subs
  /\ attributes' = res.attrs
  /\ activeEffect' = res.active
  /\ alast' = [kind |-> kind, cell |-> cell, ran |-> res.ran]
  /\ UNCHANGED attrConfig
  /\ UNCHANGED exceptAttr

\* the state right after createComponent({ tagName, attributes })
AttrInit ==
  /\ IdleExceptAttr
  /\ \E cfg \in AttrConfigs, g0 \in BOOLEAN, v0 \in JSValues :
       \E res \in {buildAttributes(cfg, g0, v0)} :
         /\ attrConfig = cfg
         /\ attrG = res.gate
         /\ attrV = res.value
         /\ attrSubs = res.subs
         /\ attributes = res.attrs
         /\ activeEffect = res.active
         /\ alast = [kind |-> "createComponent", cell |-> "", ran |-> res.ran]

\* a write of the cell g from outside
WriteAttrG ==
  \E b \in BOOLEAN :
    \E res \in {attrSetG(AttrState, b)} : AttrCommit(res, "write", "g")

\* a write of the cell v from outside
WriteAttrV ==
  \E v \in JSValues :
    \E res \in {attrSetV(AttrState, v)} : AttrCommit(res, "write", "v")

AttrNext == WriteAttrG \/ WriteAttrV

SpecAttr == AttrInit /\ [][AttrNext]_vars

\* ----------------------------------- the display-strategy conditional, top level
DisplayState ==
  [kind |-> displayKind, a |-> displayA, b |-> displayB, subs |-> displaySubs,
   active |-> activeEffect, display |-> display, builds |-> displayBuilds,
   ran |-> 0]

DisplayCommit(res, kind, cell) ==
  /\ displayA' = res.a
  /\ displayB' = res.b
  /\ displaySubs' = res.subs
  /\ display' = res.display
  /\ displayBuilds' = res.builds
  /\ activeEffect' = res.active
  /\ dlast' = [kind |-> kind, cell |-> cell, ran |-> res.ran]
  /\ UNCHANGED <<displayKind, displayKids>>
  /\ UNCHANGED exceptDisplay

\* the state right after conditionalComponent(options, condition, "display")
DisplayInit ==
  /\ IdleExceptDisplay
  /\ displayKids = << >>
  /\ \E kind \in Conditions, a0 \in BOOLEAN, b0 \in BOOLEAN :
       \E res \in {conditionalDisplay(kind, a0, b0)} :
         /\ displayKind = kind
         /\ displayA = res.a
         /\ displayB = res.b
         /\ displaySubs = res.subs
         /\ display = res.display
         /\ displayBuilds = res.builds
         /\ activeEffect = res.active
         /\ dlast = [kind |-> "conditionalComponent", cell |-> "", ran |-> res.ran]

\* the caller puts the returned component among the children of a parent
DisplayAttach ==
  /\ displayKids = << >>
  /\ \E before \in 0..1, after \in 0..1 :
       displayKids' = [i \in 1..before |-> "before"] \o <<"component">>
                        \o [i \in 1..after |-> "after"]
  /\ dlast' = [kind |-> "attach", cell |-> "", ran |-> 0]
  /\ UNCHANGED <<displayKind, displayA, displayB, displaySubs, display,
                 displayBuilds, activeEffect>>
  /\ UNCHANGED exceptDisplay

\* a write of the cell a from outside
WriteDisplayA ==
  \E v \in BOOLEAN :
    \E res \in {displaySetA(DisplayState, v)} : DisplayCommit(res, "write", "a")

\* a write of the cell b from outside
WriteDisplayB ==
  \E v \in BOOLEAN :
    \E res \in {displaySetB(DisplayState, v)} : DisplayCommit(res, "write", "b")

DisplayNext == DisplayAttach \/ WriteDisplayA \/ WriteDisplayB

SpecDisplay == DisplayInit /\ [][DisplayNext]_vars


\* =================================================== claims: the reactive core
\* effects that exist
Created == 1..nEffects

\* no effect function so far calls createEffect itself
NoNesting ==
  \A e \in Created : \A j \in 1..Len(effBody[e]) : effBody[e][j].op # "effect"

\* C1: for every cell c and every effect whose initial run under createEffect
\* read c, a call of c's writer that completes (and in which no effect writes)
\* invokes that effect exactly once.
C1_WriteReinvokesOnce ==
  [][\A e \in Created, c \in Cells :
       (/\ c \in initRead[e]
        /\ last'.kind = "write" /\ last'.c = c
        /\ last'.err = "none" /\ last'.nw = 1)
       => last'.ran[e] = 1]_vars

C3_EveryReadRegisters ==
  (last.kind = "create" /\ last.err = "none")
    => \A c \in initRead[last.eff] : last.eff \in Range(subscribers[c])

\* C4: a completed write of cell c re-executes every effect whose most recent
\* run read c, whether that run was the initial one or a re-execution (stated
\* for programs in which no effect function calls createEffect).
C4_DynamicTracking ==
  [][\A e \in Created, c \in Cells :
       (/\ NoNesting
        /\ c \in lastRead[e]
        /\ last'.kind = "write" /\ last'.c = c
        /\ last'.err = "none")
       => last'.ran[e] >= 1]_vars

\* ============================================================ claims: the list
\* the identities that have a record, and the node / fingerprint / position of one
Tracked == {itemMap[j].key : j \in 1..Len(itemMap)}
RecordIn(map, o) == map[Find(map, o)]
RecordOf(o) == RecordIn(itemMap, o)
NodeOf(o) == RecordOf(o).element

\* a reconciliation triggered by a write of the items cell has just completed,
\* the returned nodes having been attached before any write
PassDone == llast.kind = "write" /\ llast.err = "none" /\ attached /\ early = 0

\* C5: once the returned nodes were attached as the only children of the
\* parent, after every completed pass the parent's child sequence is exactly
\* the nodes of the collection's items, in collection order.
C5_ChildrenFollowCollection ==
  PassDone =>
    /\ Range(items) \subseteq Tracked
    /\ kids = [j \in 1..Len(items) |-> NodeOf(items[j])]

\* C6: the render function runs once for an identity entering the collection
\* and not again while it stays: across a write, reordering or in-place
\* mutation, a tracked identity that stays keeps its node and is not rendered.
C6_NodeIdentityPreserved ==
  [][/\ llast.kind = "listComponent" =>
          \A o \in Objs : llast.renders[o] = IF o \in Range(items) THEN 1 ELSE 0
     /\ llast'.kind = "write" =>
          \A o \in Objs :
            /\ (o \in Tracked /\ o \in Range(items') /\ o \in Tracked')
                 => (NodeOf(o)' = NodeOf(o) /\ llast'.renders[o] = 0)
            /\ llast'.renders[o] <= 1
            /\ llast'.renders[o] = 1 => o \notin Tracked]_vars

\* C6 witness: a completed pass that moved a tracked identity to another index
\* and pushed its in-place mutation, without rendering it.
C6_Witness ==
  /\ PassDone
  /\ \E o \in Tracked :
       /\ llast.setCalls[o] = 1
       /\ llast.renders[o] = 0
       /\ RecordOf(o).position > 0
       /\ text[NodeOf(o)] = content[o]
       /\ content[o] # 0

\* C7: when a completed pass's collection lacks a tracked identity B and holds
\* a new identity C at index i, then afterwards B has no record, B's node is no
\* child of the parent, and a freshly rendered node of C is the child at index i.
C7_RemoveAndInsert ==
  [][(PassDone' /\ attached /\ early = 0) =>
       \A b \in Tracked \ Range(items'), i \in 1..Len(items') :
         items'[i] \notin Tracked =>
           /\ b \notin Tracked'
           /\ NodeOf(b) \notin Range(kids')
           /\ items'[i] \in Tracked'
           /\ llast'.renders[items'[i]] = 1
           /\ i <= Len(kids')
           /\ kids'[i] = RecordIn(itemMap', items'[i]).element]_vars

\* C8: after every completed pass the record map's keys are the identities of
\* the collection, every stored position is the item's index, and once the
\* list has been attached every record's node is a child of the parent.
C8_RecordInvariant ==
  (llast.kind \in {"listComponent", "write"} /\ llast.err = "none") =>
    /\ Tracked = Range(items)
    /\ \A j \in 1..Len(itemMap) :
         /\ itemMap[j].position = IndexOf(items, itemMap[j].key) - 1
         /\ attached => itemMap[j].element \in Range(kids)

\* C9: a write whose pass finds a tracked identity with a serialization other
\* than its stored fingerprint writes that identity's per-item cell exactly
\* once, stores the new fingerprint and keeps the node; an identity whose
\* serialization is unchanged has its cell not written.
C9_InPlaceMutation ==
  [][(llast'.kind = "write" /\ attached /\ early = 0) =>
       \A o \in Tracked \cap Range(items') :
         IF Stringify(content'[o]) # RecordOf(o).id
         THEN /\ llast'.setCalls[o] = 1
              /\ o \in Tracked'
              /\ RecordOf(o)'.id = Stringify(content'[o])
              /\ NodeOf(o)' = NodeOf(o)
         ELSE llast'.setCalls[o] = 0]_vars

\* ===================================================== claims: the conditional
\* the nodes a conditional makes, and where the parent holds one
Markers == ElmNodes \cup CommentNodes
MarkerPlaces(kids0) == {j \in 1..Len(kids0) : kids0[j] \in Markers}

\* C10: once the returned node is attached, after every write of the condition
\* the parent holds exactly one node of the conditional (a component or a
\* placeholder comment, never both, never neither), at the child position of the
\* node it replaced, the parent's other children staying where they were.
C10_ExactlyOneMarker ==
  [][condAttached' =>
       /\ Cardinality(MarkerPlaces(condKids')) = 1
       /\ condAttached =>
            /\ MarkerPlaces(condKids') = MarkerPlaces(condKids)
            /\ Len(condKids') = Len(condKids)
            /\ \A j \in 1..Len(condKids) :
                 condKids[j] \in SiblingNodes => condKids'[j] = condKids[j]]_vars

\* C10 witness: a write after attachment has put a component in the place of a
\* placeholder that stood between two other children.
C10_Witness ==
  /\ condAttached
  /\ clast.kind = "write" /\ clast.swaps = 1
  /\ cond /\ elm # Null /\ placeholder = Null
  /\ Len(condKids) = NumSiblings + 1
  /\ condKids[2] = elm

\* C11: a write of the condition after which the conditional still has no
\* parent (neither its component nor its placeholder is attached anywhere) ends
\* with the fatal error "Unable to find the parent node".
C11_FatalWithoutParent ==
  [][(clast'.kind = "write" /\ condParent' = Null) => clast'.err = "throw"]_vars


\* ======================================================= claims: the class list
\* the element has one entry in `classes`, and it is a producer
OneProducer == Len(classEntries) = 1 /\ classEntries[1].dyn

Supplied ==
  tagClasses
    \cup {classEntries[k].lit : k \in {j \in 1..Len(classEntries) : ~classEntries[j].dyn}}
    \cup {classCell[k] : k \in {j \in 1..Len(classEntries) :
                                  classEntries[j].dyn /\ classCell[j] # Null}}

\* C18: the class list is the union of the classes of the tag-path, of the
\* literal entries and of the current non-empty value of every producer.
C18_ClassListIsUnion == classList = Supplied


\* ===================================================== claims: the bound input
\* C13: the node's value is the cell's value after inputComponent and after
\* every external write and every edit event has returned, and an edit event
\* leaves the edited value in the cell.
C13_NodeEqualsCell ==
  /\ ilast.kind # "idle" => inputValue = textCell
  /\ ilast.kind = "edit" => textCell = ilast.v


\* ======================================================== claims: the tag-path
\* the element built for the i-th segment carries that segment's tag (div
\* when omitted) and id, and its classes next to the given extra ones
SegmentApplied(i, extra) ==
  LET e == tagBuilt.els[i]
      g == tagSegments[i]
  IN  /\ e.tag = (IF g.tag = << >> THEN Div ELSE g.tag)
      /\ e.id = g.id
      /\ ClassListOf(e) = Range(g.classes) \cup extra

\* C14: for a tag-path of n segments createComponent returns the element of
\* the first segment; the element of every later segment is the only child of
\* the element before it; every segment's tag (div when omitted), id and
\* classes are on its own element; and the children, classes, events and
\* attributes of the configuration are on the innermost element and on no other.
C14_ChainBuilt ==
  tagBuilt # NotBuilt =>
    LET n == Len(tagSegments)
        els == tagBuilt.els
    IN  /\ Len(els) = n
        /\ tagBuilt.root = 1
        /\ \A i \in 1..(n - 1) :
             /\ els[i].kids = <<i + 1>>
             /\ SegmentApplied(i, {})
             /\ els[i].events = {} /\ els[i].attrs = {}
        /\ SegmentApplied(n, IF "classes" \in tagFields THEN {<<"c">>} ELSE {})
        /\ els[n].kids = (IF "children" \in tagFields THEN <<0>> ELSE << >>)
        /\ els[n].events = (IF "events" \in tagFields THEN {"click"} ELSE {})
        /\ els[n].attrs = (IF "attributes" \in tagFields THEN {"title"} ELSE {})

\* C14: a chain of three segments was built from a path like
\* "ab#a-.a.b->.a>#a-" with a full configuration.
C14_Witness ==
  /\ tagBuilt # NotBuilt
  /\ Len(tagSegments) = 3
  /\ tagFields = ConfigFields
  /\ tagSegments[1] = [tag |-> <<"a", "b">>, id |-> <<"a", "-">>,
                       classes |-> <<(<<"a">>), (<<"b", "-">>)>>]
  /\ tagSegments[2] = [tag |-> << >>, id |-> << >>, classes |-> <<(<<"a">>)>>]
  /\ tagBuilt.els[1].kids = <<2>>
  /\ tagBuilt.els[2].kids = <<3>>
  /\ tagBuilt.els[2].tag = Div
  /\ ClassListOf(tagBuilt.els[1]) = {<<"a">>, <<"b", "-">>}
  /\ tagBuilt.els[3].kids = <<0>>


\* ========================================================== claims: the store
\* C15: after the module is loaded and after every addTodo, addAt, removeTodo
\* and updateTodo has returned, TODO_ITEMS holds the JSON text of the
\* collection getTodoItems() returns; and when the text found at load time
\* does not parse, the collection starts empty.
C15_PersistedIsCurrent ==
  slast.kind # "idle" =>
    /\ storedItems = [has |-> TRUE, text |-> JSONstringify(todoItems)]
    /\ (slast.kind = "load" /\ ~JSONparse(slast.loaded.text).ok) => todoItems = << >>

\* C15: a label was updated in a store of two items, one of them loaded from
\* the persisted text.
C15_Witness ==
  /\ slast.kind = "updateTodo"
  /\ JSONparse(slast.loaded.text).ok
  /\ Len(todoItems) = 2
  /\ Field(todoItems[1], "label") # Field(todoItems[2], "label")
  /\ storedItems.text = JSONstringify(todoItems)


\* ===================================================== claims: the cell writer
\* C16: a write that returns has assigned before any subscriber ran (no read made
\* during the call returned another value than the one handed to the latest
\* write of that cell), and every effect subscribed to a cell written during
\* the call, by the write itself or by a nested one, was run during the call,
\* whether or not the new value differs from the old one.
C16_AssignThenRunAll ==
  [][(last'.kind = "write" /\ last'.err = "none") =>
       /\ ~last'.stale
       /\ \A c \in last'.written : \A e \in Range(subscribers[c]) : last'.ran[e] >= 1]_vars

\* C16: a write of the value the cell already holds has returned after running
\* an effect that reads the cell and writes another cell, and the subscriber of
\* that other cell.
C16_Witness ==
  /\ last.kind = "write"
  /\ last.err = "none"
  /\ last.same
  /\ last.nw = 2
  /\ last.written = Cells
  /\ \E e \in Created : \E f \in Created \ {e} :
       /\ e \in Range(subscribers[last.c])
       /\ \E c \in Cells \ {last.c} : f \in Range(subscribers[c])
       /\ last.ran[e] = 1 /\ last.ran[f] = 1


\* C17: after every write of the condition that follows the attachment of the
\* returned node, a component is among the parent's children exactly when the
\* condition is true and a placeholder comment exactly when it is false.
C17_TracksCondition ==
  [][(condAttached /\ clast'.kind = "write" /\ clast'.err = "none") =>
       /\ (\E j \in 1..Len(condKids') : condKids'[j] \in ElmNodes) <=> cond'
       /\ (\E j \in 1..Len(condKids') : condKids'[j] \in CommentNodes) <=> ~cond']_vars


\* ================================================ claims: the subscriber sets
\* C19: across writes of the condition (unmounts and rebuilds of the component)
\* and writes of the cell the component reads, every subscriber of either cell
\* stays in the cell's subscriber set at its place, and a write of a cell runs
\* every effect that was subscribed to it, the effects of unmounted components
\* included.
C19_SubscribersOnlyGrow ==
  [][/\ \A cell \in {"c", "s"} : \A i \in 1..Len(mountSubs[cell]) :
          /\ i <= Len(mountSubs'[cell])
          /\ mountSubs'[cell][i] = mountSubs[cell][i]
     /\ mlast'.kind = "writeS" => \A e \in Range(mountSubs["s"]) : mlast'.ran[e] = 1
     /\ mlast'.kind = "writeC" => \A e \in Range(mountSubs["c"]) : mlast'.ran[e] = 1]_vars

\* C19: a write of the cell has run the class effects of three builds of the
\* component, two of which were unmounted before.
C19_Witness ==
  /\ mlast.kind = "writeS"
  /\ mountBuilds = 3
  /\ mountInParent = 3
  /\ mountSubs["s"] = <<1, 2, 3>>
  /\ \A g \in Builds : mlast.ran[g] = 1 /\ mountClassOf[g] = mountS


\* ================================================ claims: the list, empty first
\* the nodes of the items of coll that have a record in map, in collection order
NodesOfIn(map, coll) ==
  LET RECURSIVE Go(_)
      Go(j) ==
        IF j > Len(coll) THEN << >>
        ELSE (IF \E k \in 1..Len(map) : map[k].key = coll[j]
              THEN <<RecordIn(map, coll[j]).element>> ELSE << >>) \o Go(j + 1)
  IN  Go(1)

\* the subsequence of seq with the members of S
Only(seq, S) == SelectSeq(seq, LAMBDA n : n \in S)

\* C20: over a collection that is empty at first, listComponent returns one
\* placeholder comment.  The first completed pass after its attachment finds
\* the parent through it and takes it out, and the nodes of the items that are
\* new in that pass become children in collection order.  The placeholder is
\* never a child next to item nodes.  Once found the parent stays, and a pass
\* that refills the emptied list makes its children the items' nodes in
\* collection order.
C20_EmptyFirst ==
  [][/\ llast.kind = "listComponent" =>
          (returned = <<CommentNode>> /\ referenceElm = CommentNode)
     /\ CommentNode \in Range(kids') => kids' = <<CommentNode>>
     /\ parentNode # Null => parentNode' = parentNode
     /\ (llast'.kind = "write" /\ llast'.err = "none" /\ attached) =>
          /\ parentNode' = Parent
          /\ referenceElm' = Null
          /\ CommentNode \notin Range(kids')
          /\ LET new == Only(items', Objs \ Tracked)
             IN  (referenceElm # Null \/ llast'.wasEmpty) =>
                   Only(kids', Range(NodesOfIn(itemMap', new))) = NodesOfIn(itemMap', new)
          /\ (llast'.wasEmpty /\ parentNode = Parent) =>
               kids' = NodesOfIn(itemMap', items')]_vars

\* C20: the list, empty at first and attached before any write, had its parent
\* found by an earlier pass, was empty again, and the third write has mounted
\* two items into that parent.
C20_Witness ==
  /\ llast.kind = "write"
  /\ llast.err = "none"
  /\ llast.wasEmpty
  /\ early = 0
  /\ writes = 3
  /\ parentNode = Parent
  /\ Len(items) = 2
  /\ kids = NodesOfIn(itemMap, items)
  /\ Len(kids) = 2

\* C25: the active-effect slot is empty once createEffect(fn) has been left,
\* also when fn raised an error during its run, and a read made outside of any
\* effect after it adds no subscriber to the cell read.
C25_SlotClearedOnThrow ==
  [][/\ (last'.kind = "create") => activeEffect' = Null
     /\ (last'.kind = "read") => subscribers' = subscribers]_vars

\* the effect function b reads cell c on every run / writes cell c on every run
ReadsCell(b, c) ==
  \E j \in 1..Len(b) : b[j].op \in {"read", "readIf"} /\ b[j].c = c
WritesCell(b, c) ==
  \E j \in 1..Len(b) : b[j].op = "write" /\ b[j].c = c
\* b's first statement reads c and a later one writes c
ReadsThenWrites(b, c) ==
  /\ Len(b) >= 2
  /\ b[1].op \in {"read", "readIf"} /\ b[1].c = c
  /\ \E j \in 2..Len(b) : b[j].op = "write" /\ b[j].c = c

\* C23 as stated: for an effect function that reads a cell and unconditionally
\* writes that same cell, createEffect on it never returns, and no later
\* write to that cell returns either.
C23_NeverCompletes ==
  [][\A c \in Cells :
       /\ (/\ last'.kind = "create"
           /\ ReadsCell(effBody'[last'.eff], c)
           /\ WritesCell(effBody'[last'.eff], c))
            => last'.err # "none"
       /\ (/\ last'.kind = "write" /\ last'.c = c
           /\ \E e \in Created : ReadsCell(effBody[e], c) /\ WritesCell(effBody[e], c))
            => last'.err # "none"]_vars

\* C23 amended: a write to a cell never returns while an effect that writes
\* that cell on every run is subscribed to it, and createEffect never returns
\* on a function whose first statement reads the cell it writes later; the
\* call ends in stack overflow unless an effect raises its own error first.
C23_SubscribedWriterNeverReturns ==
  [][\A c \in Cells :
       /\ (/\ last'.kind = "write" /\ last'.c = c
           /\ \E e \in Range(subscribers[c]) : WritesCell(effBody[e], c))
            => last'.err \in {"overflow", "throw"}
       /\ (last'.kind = "create" /\ ReadsThenWrites(effBody'[last'.eff], c))
            => last'.err \in {"overflow", "throw"}]_vars

\* C23 witness: an effect function that writes a cell and then reads it was
\* created without error, and a later write to that cell from outside ended
\* in stack overflow.
C23_Witness ==
  /\ last.kind = "write" /\ last.err = "overflow"
  /\ \E e \in Range(subscribers[last.c]) :
       /\ Len(effBody[e]) = 2
       /\ effBody[e][1].op = "write" /\ effBody[e][1].c = last.c
       /\ effBody[e][2].op = "read" /\ effBody[e][2].c = last.c
       /\ last.ran[e] = MaxDepth


\* C24: a write to the items cell returns after finitely many effect
\* invocations (it does not exhaust the stack), whatever the render function,
\* and the reconciliation effect is not a subscriber of any per-item cell, so
\* the per-item cell write of a pass does not re-enter it.
C24_PassTerminates ==
  [][(llast'.kind = "write") =>
       /\ llast'.err # "overflow"
       /\ \A o \in Objs : ListEff \notin Range(cellSubs'[o])]_vars

\* ==================================================== claims: the attributes
\* what a producer yields for the current values of the cells
Produced(kind) ==
  CASE kind = "value" -> attrV
    [] kind = "flag" -> IF attrG THEN Str("true") ELSE JSNull
    [] OTHER -> IF attrG THEN attrV ELSE JSNull

\* the cells a producer reads when run on the current values: its dependencies
ProducerReads(kind) ==
  CASE kind = "value" -> {"v"}
    [] kind = "flag" -> {"g"}
    [] OTHER -> IF attrG THEN {"g", "v"} ELSE {"g"}

\* the attribute a value calls for: none for undefined and null, else one
\* holding the value's string form
StringForm(v) ==
  CASE v = Num(0) -> "0"
    [] v = Num(1) -> "1"
    [] OTHER -> v.s
Called(v) == IF v = Undefined \/ v = JSNull THEN << >> ELSE <<StringForm(v)>>

\* C21: a literal attribute holds the literal's string form at all times;
\* right after createComponent and after every write of a cell that a producer
\* depends on, the element has the producer's attribute with the string form
\* of the producer's current value, or lacks it when that value is undefined
\* or null.
C21_AttributeFollowsProducer ==
  \A i \in 1..Len(attrConfig) :
    IF attrConfig[i].kind = "literal"
    THEN attributes[attrConfig[i].name] = <<StringForm(attrConfig[i].lit)>>
    ELSE (\/ alast.kind = "createComponent"
          \/ alast.kind = "write" /\ alast.cell \in ProducerReads(attrConfig[i].kind))
           => attributes[attrConfig[i].name] = Called(Produced(attrConfig[i].kind))

\* ================================== claims: the display-strategy conditional
\* what the condition function yields for the current values of the cells
ConditionNow ==
  CASE displayKind = "a" -> displayA
    [] displayKind = "both" -> displayA /\ displayB
    [] OTHER -> displayA \/ displayB

\* the cells the condition reads when run on the current values: its
\* dependencies
ConditionReads ==
  CASE displayKind = "a" -> {"a"}
    [] displayKind = "both" -> IF displayA THEN {"a", "b"} ELSE {"a"}
    [] OTHER -> IF displayA THEN {"a"} ELSE {"a", "b"}

\* C22: the conditional built one component, which stays among the parent's
\* children once the caller put it there; right after conditionalComponent and
\* after every write of a cell the condition depends on, style.display is ""
\* when the condition is true and "none" when it is false.
C22_DisplayFollowsCondition ==
  /\ displayBuilds = 1
  /\ displayKids # << >> =>
       Cardinality({i \in 1..Len(displayKids) : displayKids[i] = "component"}) = 1
  /\ (\/ dlast.kind = "conditionalComponent"
      \/ dlast.kind = "write" /\ dlast.cell \in ConditionReads)
       => display = IF ConditionNow THEN "" ELSE "none"

====
